---- MODULE Spec2Model ----
(***************************************************************************)
(* md-to-notion: the synchronization engine (page-creator.ts), the sync    *)
(* state store (sync-state.ts) and the Notion client helpers               *)
(* (notion/client.ts), as a state machine.  One invocation of              *)
(* importMarkdown is a sequence of steps, one per remote call (one for the *)
(* deletions of a replacement) and one per write of the state file;        *)
(* invocations follow one another, and the documents may be edited         *)
(* between them.  The inline parser (parser/inline.ts), the block parser   *)
(* (parser/blocks.ts), the block builder (notion/blocks.ts) and the large  *)
(* upload (upload.ts) are modelled next to it, each with a specification   *)
(* of its own.  Strings are sequences of characters; the operators that    *)
(* stand for built-ins of the language (String.prototype.trim, the classes *)
(* and quantifiers of regular expressions, decodeURIComponent) follow the  *)
(* ECMAScript standard.                                                    *)
(***************************************************************************)
EXTENDS Integers, Sequences, FiniteSets, TLC

VARIABLES
    fs,      \* the documents on disk: absolute path -> bytes
    disk,    \* .notion-sync.json: <<>> when absent, <<SyncState>> otherwise
    remote,  \* the pages of the workspace, in creation order
    clock,   \* the wall clock, one tick per invocation
    pc,      \* position of the running invocation of importMarkdown
    state,   \* its in-memory SyncState
    idx,     \* its loop index (sortedDirs or scan.mdFiles)
    op,      \* its createPageWithBlocks / replacePageBlocks call in progress
    run,     \* observation of the running (or last) invocation
    prev,    \* observation of the invocation before it
    \* parseInline(text)
    text,           \* its argument
    remaining,      \* what is left to parse
    segments,       \* the segments pushed so far
    sources,        \* the part of the text each segment stands for
    earliestMatch,  \* the match chosen in the last turn of the loop
    \* parseMarkdownBlocks(content, markdownFilePath)
    content,        \* its argument, line by line
    lines,          \* the lines of the body, footnote references replaced
    cursor,         \* the index i of the line to look at next
    entered,        \* the index i at the head of the turn just taken
    blockList,      \* the blocks pushed so far
    assigned,       \* the lines that went into a block
    outcome,        \* "idle", "parsing", "returned" or "raised"
    \* uploadLargeFile(notion, data, filename, contentType)
    fileSize,       \* data.length, in MiB
    uploadPc,       \* position of the call
    created,        \* the fileUploads.create requests issued
    parts,          \* the state of the send of each part
    completes,      \* the fileUploads.complete requests issued
    uploadResult    \* how the call ended

engineVars == <<fs, disk, remote, clock, pc, state, idx, op, run, prev>>
inlineVars == <<text, remaining, segments, sources, earliestMatch>>
blockVars == <<content, lines, cursor, entered, blockList, assigned, outcome>>
uploadVars == <<fileSize, uploadPc, created, parts, completes, uploadResult>>
\* the variables of the functions that are also run on their own
unitVars == <<inlineVars, blockVars, uploadVars>>

vars == <<engineVars, unitVars>>

(***************************************************************************)
(* Bounds.                                                                 *)
(***************************************************************************)
\* invocations of importMarkdown in one behaviour
MaxRuns == 2
\* a remote call can be made to fail only among the first MaxFaultAt calls
\* of an invocation
MaxFaultAt == 4
\* an argument of parseInline is made of at most MaxPieces pieces
MaxPieces == 2
\* the block list given to createPageWithBlocks or appendBlocks on their own
\* has at most MaxBlocks blocks
MaxBlocks == 250
\* the file given to uploadLargeFile has at most MaxFileMB MiB
MaxFileMB == 45
\* the content given to parseMarkdownBlocks on its own has at most MaxLines
\* lines
MaxLines == 3

(***************************************************************************)
(* Program constants.                                                      *)
(***************************************************************************)
MAX_BLOCKS_PER_REQUEST == 100
\* page_size of blocks.children.list
LIST_PAGE_SIZE == 100
\* the sizes of upload.ts, in MiB
TWENTY_MB == 20
TEN_MB == 10

(***************************************************************************)
(* Identifiers of pages.  A destination id is given on the command line,   *)
(* a page id is returned by pages.create, "dry-run" is the placeholder.    *)
(***************************************************************************)
DestId(d) == [kind |-> "dest", n |-> d]
PageId(n) == [kind |-> "page", n |-> n]
DryRunId == [kind |-> "dry-run", n |-> 0]
Dests == {DestId(1), DestId(2)}

(***************************************************************************)
(* Paths are sequences of components.                                      *)
(***************************************************************************)
RECURSIVE CommonPrefix(_, _)
CommonPrefix(a, b) ==
    IF a # <<>> /\ b # <<>> /\ Head(a) = Head(b)
    THEN 1 + CommonPrefix(Tail(a), Tail(b))
    ELSE 0

\* path.relative(rootDir, targetPath); "" is <<>>
toRelativePath(rootDir, targetPath) ==
    LET c == CommonPrefix(rootDir, targetPath)
    IN  [k \in 1..(Len(rootDir) - c) |-> ".."]
            \o SubSeq(targetPath, c + 1, Len(targetPath))

\* path.dirname of a relative path; "." is <<".">>
Dirname(p) == IF Len(p) <= 1 THEN <<".">> ELSE SubSeq(p, 1, Len(p) - 1)

\* path.basename(p)
Basename(p) == IF p = <<>> THEN "" ELSE p[Len(p)]

\* path.basename(p, ".md")
BasenameMd(p) ==
    LET b == Basename(p)
    IN  CASE b = "a.md" -> "a"
          [] b = "note.md" -> "note"
          [] OTHER -> b

RECURSIVE PathLength(_)
\* the length of the path as a string, separators included
PathLength(p) ==
    IF p = <<>> THEN 0
    ELSE IF Len(p) = 1 THEN Len(p[1])
    ELSE Len(p[1]) + 1 + PathLength(Tail(p))

RECURSIVE InsertByLength(_, _)
\* x goes after every element that is not longer (the sort is stable)
InsertByLength(s, x) ==
    IF s = <<>> THEN <<x>>
    ELSE IF PathLength(Head(s)) <= PathLength(x)
         THEN <<Head(s)>> \o InsertByLength(Tail(s), x)
         ELSE <<x>> \o s

RECURSIVE SortByLength(_)
\* .sort((a, b) => a.length - b.length)
SortByLength(s) ==
    IF s = <<>> THEN <<>>
    ELSE InsertByLength(SortByLength(SubSeq(s, 1, Len(s) - 1)), s[Len(s)])

\* p is dir or lies below it
IsUnder(p, dir) == Len(p) >= Len(dir) /\ SubSeq(p, 1, Len(dir)) = dir

RECURSIVE climb(_, _)
\* the while loop of deriveDirectories: current and the directories above
\* it, up to rootDir
climb(rootDir, current) ==
    IF ~IsUnder(current, rootDir) THEN <<>>
    ELSE IF Len(current) <= 1 \/ current = rootDir THEN <<current>>
    ELSE <<current>> \o climb(rootDir, SubSeq(current, 1, Len(current) - 1))

RECURSIVE addAll(_, _)
\* dirSet.add of each element of more, in order
addAll(dirSet, more) ==
    IF more = <<>> THEN dirSet
    ELSE addAll(IF \E k \in DOMAIN dirSet : dirSet[k] = Head(more)
                THEN dirSet ELSE Append(dirSet, Head(more)),
                Tail(more))

RECURSIVE deriveDirSet(_, _)
deriveDirSet(rootDir, mdFiles) ==
    IF mdFiles = <<>> THEN <<>>
    ELSE addAll(deriveDirSet(rootDir, SubSeq(mdFiles, 1, Len(mdFiles) - 1)),
                climb(rootDir, SubSeq(mdFiles[Len(mdFiles)], 1,
                                      Len(mdFiles[Len(mdFiles)]) - 1)))

deriveDirectories(rootDir, mdFiles) ==
    SortByLength(deriveDirSet(rootDir, mdFiles))

\* allDirectories.filter(...) of scanMultipleInputs: the directories at or
\* below an input directory
relevantDirs(subDirs, allDirectories) ==
    SelectSeq(allDirectories,
              LAMBDA dir : \E k \in DOMAIN subDirs : IsUnder(dir, subDirs[k]))

getRootKey == <<".">>

getParentKey(relativeDir) ==
    LET parent == Dirname(relativeDir)
    IN  IF parent = <<".">> THEN getRootKey ELSE parent

(***************************************************************************)
(* parser/inline.ts: parseInline.  A string is the sequence of its         *)
(* characters; a regular expression of the pattern list is matched the way *)
(* String.prototype.match does, at the leftmost position where it matches. *)
(***************************************************************************)
\* the grave accent, which cannot be written in a string of this language
Backquote == "grave"

\* the literal is in s at position at (from 1)
StartsWithAt(s, at, literal) ==
    /\ at >= 1
    /\ at + Len(literal) - 1 <= Len(s)
    /\ \A k \in 1..Len(literal) : s[at + k - 1] = literal[k]

RECURSIVE RunLength(_, _, _)
\* [^...]+ : the characters from position at on that are not excluded
RunLength(s, at, excluded) ==
    IF at > Len(s) \/ s[at] \in excluded THEN 0
    ELSE 1 + RunLength(s, at + 1, excluded)

\* a capture group that did not take part in the match is <<>>, one that
\* did is <<its text>>
NoMatch == [found |-> FALSE, index |-> 0, length |-> 0, groups |-> <<>>,
            input |-> <<>>]

Matched(s, at, length, groups) ==
    [found |-> TRUE, index |-> at - 1, length |-> length, groups |-> groups,
     input |-> s]

\* open ([^x]+) close, x the first character of close
Delimited(name, open, close, excluded) ==
    [name |-> name, shape |-> "delimited", open |-> open, close |-> close,
     excluded |-> excluded]

\* the pattern list of parseInline, in its order
patterns ==
    << Delimited("equation", <<"$">>, <<"$">>, {"$"}),
       [name |-> "wiki-link", shape |-> "wiki", open |-> <<"[", "[">>,
        close |-> <<"]", "]">>, excluded |-> {"]", "|"}],
       [name |-> "markdown link", shape |-> "link", open |-> <<"[">>,
        close |-> <<")">>, excluded |-> {"]"}],
       Delimited("highlight", <<"=", "=">>, <<"=", "=">>, {"="}),
       Delimited("bold-italic", <<"*", "*", "*">>, <<"*", "*", "*">>, {"*"}),
       Delimited("bold-italic", <<"_", "_", "_">>, <<"_", "_", "_">>, {"_"}),
       Delimited("bold", <<"*", "*">>, <<"*", "*">>, {"*"}),
       Delimited("bold", <<"_", "_">>, <<"_", "_">>, {"_"}),
       Delimited("inline code", <<Backquote>>, <<Backquote>>, {Backquote}),
       Delimited("strikethrough", <<"~", "~">>, <<"~", "~">>, {"~"}),
       Delimited("italic", <<"*">>, <<"*">>, {"*"}),
       Delimited("italic", <<"_">>, <<"_">>, {"_"}) >>

\* the regular expression of the pattern matched at position at exactly
MatchAt(s, at, p) ==
    CASE p.shape = "delimited" ->
            LET a == at + Len(p.open)
                r == RunLength(s, a, p.excluded)
            IN  IF /\ StartsWithAt(s, at, p.open)
                   /\ r >= 1
                   /\ StartsWithAt(s, a + r, p.close)
                THEN Matched(s, at, Len(p.open) + r + Len(p.close),
                             << <<SubSeq(s, a, a + r - 1)>> >>)
                ELSE NoMatch
      [] p.shape = "wiki" ->
            \* \[\[([^\]|]+)(?:\|([^\]]+))?\]\]
            LET a == at + 2
                r1 == RunLength(s, a, {"]", "|"})
                b == a + r1
                r2 == RunLength(s, b + 1, {"]"})
                target == SubSeq(s, a, b - 1)
            IN  IF ~(StartsWithAt(s, at, <<"[", "[">>) /\ r1 >= 1)
                THEN NoMatch
                ELSE IF /\ StartsWithAt(s, b, <<"|">>)
                        /\ r2 >= 1
                        /\ StartsWithAt(s, b + 1 + r2, <<"]", "]">>)
                THEN Matched(s, at, 2 + r1 + 1 + r2 + 2,
                             << <<target>>, <<SubSeq(s, b + 1, b + r2)>> >>)
                ELSE IF StartsWithAt(s, b, <<"]", "]">>)
                THEN Matched(s, at, 2 + r1 + 2, << <<target>>, <<>> >>)
                ELSE NoMatch
      [] OTHER ->
            \* \[([^\]]+)\]\(([^)]+)\)
            LET a == at + 1
                r1 == RunLength(s, a, {"]"})
                b == a + r1 + 2
                r2 == RunLength(s, b, {")"})
            IN  IF /\ StartsWithAt(s, at, <<"[">>)
                   /\ r1 >= 1
                   /\ StartsWithAt(s, a + r1, <<"]", "(">>)
                   /\ r2 >= 1
                   /\ StartsWithAt(s, b + r2, <<")">>)
                THEN Matched(s, at, 1 + r1 + 2 + r2 + 1,
                             << <<SubSeq(s, a, a + r1 - 1)>>,
                                <<SubSeq(s, b, b + r2 - 1)>> >>)
                ELSE NoMatch

RECURSIVE MatchFrom(_, _, _)
\* the leftmost match at or after position at
MatchFrom(s, at, p) ==
    IF at > Len(s) THEN NoMatch
    ELSE IF MatchAt(s, at, p).found THEN MatchAt(s, at, p)
    ELSE MatchFrom(s, at + 1, p)

\* remaining.match(pattern.regex)
match(s, p) == MatchFrom(s, 1, p)

UpperCaseLetters ==
    <<"A", "B", "C", "D", "E", "F", "G", "H", "I", "J", "K", "L", "M", "N",
      "O", "P", "Q", "R", "S", "T", "U", "V", "W", "X", "Y", "Z">>
LowerCaseLetters ==
    <<"a", "b", "c", "d", "e", "f", "g", "h", "i", "j", "k", "l", "m", "n",
      "o", "p", "q", "r", "s", "t", "u", "v", "w", "x", "y", "z">>

\* [a-z] with the i flag
Letters ==
    {UpperCaseLetters[n] : n \in 1..Len(UpperCaseLetters)}
        \cup {LowerCaseLetters[n] : n \in 1..Len(LowerCaseLetters)}

\* the lower case of a character (the i flag)
lower(c) ==
    IF \E n \in 1..Len(UpperCaseLetters) : UpperCaseLetters[n] = c
    THEN LowerCaseLetters[CHOOSE n \in 1..Len(UpperCaseLetters) :
                             UpperCaseLetters[n] = c]
    ELSE c

lowerCase(s) == [k \in 1..Len(s) |-> lower(s[k])]

\* /^https?:\/\//i
IsHttpUrl(url) ==
    \/ StartsWithAt(lowerCase(url), 1, <<"h", "t", "t", "p", ":", "/", "/">>)
    \/ StartsWithAt(lowerCase(url), 1,
                    <<"h", "t", "t", "p", "s", ":", "/", "/">>)

isRelativeMarkdownLink(url) ==
    IF IsHttpUrl(url) THEN FALSE
    ELSE \/ \E at \in 1..Len(url) :
                /\ StartsWithAt(lowerCase(url), at, <<".", "m", "d">>)
                /\ \/ at + 3 > Len(url)
                   \/ url[at + 3] \in {"?", "#"}
         \/ ~(LET r == RunLength(url, 1, {c \in {url[k] : k \in 1..Len(url)} :
                                            c \notin Letters})
              IN  r >= 1 /\ StartsWithAt(url, r + 1, <<":">>))

\* match[n] ?? fallback
Group(m, n, fallback) == IF m.groups[n] = <<>> THEN fallback ELSE m.groups[n][1]

Annotated(text_, annotations) ==
    [type |-> "text", text |-> text_, annotations |-> annotations]

\* the handler of the pattern, applied to its match
handler(p, m) ==
    CASE p.name = "equation" ->
            <<[type |-> "equation", text |-> Group(m, 1, <<>>)]>>
      [] p.name = "wiki-link" ->
            LET target == Group(m, 1, <<>>)
            IN  <<[type |-> "wiki_link", target |-> target,
                   display |-> Group(m, 2, target)]>>
      [] p.name = "markdown link" ->
            LET label == Group(m, 1, <<>>)
                url == Group(m, 2, <<>>)
            IN  IF isRelativeMarkdownLink(url)
                THEN <<[type |-> "wiki_link", target |-> url,
                        display |-> label]>>
                ELSE <<[type |-> "text", text |-> label, link |-> url]>>
      [] p.name = "highlight" ->
            <<Annotated(Group(m, 1, <<>>), [color |-> "yellow_background"])>>
      [] p.name = "bold-italic" ->
            <<Annotated(Group(m, 1, <<>>), [bold |-> TRUE, italic |-> TRUE])>>
      [] p.name = "bold" ->
            <<Annotated(Group(m, 1, <<>>), [bold |-> TRUE])>>
      [] p.name = "inline code" ->
            <<Annotated(Group(m, 1, <<>>), [code |-> TRUE])>>
      [] p.name = "strikethrough" ->
            <<Annotated(Group(m, 1, <<>>), [strikethrough |-> TRUE])>>
      [] OTHER ->
            <<Annotated(Group(m, 1, <<>>), [italic |-> TRUE])>>

NoEarliest == [found |-> FALSE, index |-> 0, match |-> NoMatch, handler |-> 0]

\* Earlier that takes every pattern that matches, wherever it matches
EarlierAnywhere(m, best) == m.found

\* the test that makes a match the earliest one so far
Earlier(m, best) == m.found /\ (~best.found \/ m.index < best.index)

RECURSIVE EarliestFrom(_, _, _)
\* the loop over the patterns, from pattern k on
EarliestFrom(remaining_, k, best) ==
    IF k > Len(patterns) THEN best
    ELSE LET m == match(remaining_, patterns[k])
         IN  EarliestFrom(remaining_, k + 1,
                 IF Earlier(m, best)
                 THEN [found |-> TRUE, index |-> m.index, match |-> m,
                       handler |-> k]
                 ELSE best)

\* Rest that skips the captured text only, not the delimiters
RestAfterGroup(remaining_, e) ==
    SubSeq(remaining_, e.index + Len(Group(e.match, 1, <<>>)) + 1,
           Len(remaining_))

\* remaining.slice(earliestMatch.index + earliestMatch.match[0].length)
Rest(remaining_, e) ==
    SubSeq(remaining_, e.index + e.match.length + 1, Len(remaining_))

\* one turn of the while loop on a non-empty remaining: the segments pushed,
\* the text each of them stands for, and what remains
parseInlineStep(remaining_) ==
    CHOOSE turn \in
        { LET before == SubSeq(remaining_, 1, e.index)
              whole == SubSeq(remaining_, e.index + 1,
                              e.index + e.match.length)
          IN  IF ~e.found
              THEN [segments |-> <<[type |-> "text", text |-> remaining_]>>,
                    sources |-> <<[plain |-> TRUE, src |-> remaining_]>>,
                    rest |-> <<>>, earliestMatch |-> e]
              ELSE [segments |->
                        (IF e.index > 0
                         THEN <<[type |-> "text", text |-> before]>>
                         ELSE <<>>)
                            \o handler(patterns[e.handler], e.match),
                    sources |->
                        (IF e.index > 0
                         THEN <<[plain |-> TRUE, src |-> before]>> ELSE <<>>)
                            \o <<[plain |-> FALSE, src |-> whole]>>,
                    rest |-> Rest(remaining_, e), earliestMatch |-> e] :
          e \in {EarliestFrom(remaining_, 1, NoEarliest)} } : TRUE

RECURSIVE parseInline(_)
\* the turns of the while loop, one after the other
parseInline(text_) ==
    CHOOSE parsed \in
        { IF Len(remaining_) = 0 THEN <<>>
          ELSE CHOOSE pushed \in
                   { turn.segments \o parseInline(turn.rest) :
                     turn \in {parseInlineStep(remaining_)} } : TRUE :
          remaining_ \in {text_} } : TRUE

(***************************************************************************)
(* decodeURIComponent and resolveImagePath (parser/inline.ts).  A string   *)
(* is a sequence of characters; a character that an escape of more than    *)
(* one byte stands for is written "non-ascii".                             *)
(***************************************************************************)
\* the characters of the codes 0..127; a control character is named
Ascii ==
    <<"ctrl-0", "ctrl-1", "ctrl-2", "ctrl-3", "ctrl-4", "ctrl-5", "ctrl-6",
      "ctrl-7", "ctrl-8", "ctrl-9", "ctrl-10", "ctrl-11", "ctrl-12",
      "ctrl-13", "ctrl-14", "ctrl-15", "ctrl-16", "ctrl-17", "ctrl-18",
      "ctrl-19", "ctrl-20", "ctrl-21", "ctrl-22", "ctrl-23", "ctrl-24",
      "ctrl-25", "ctrl-26", "ctrl-27", "ctrl-28", "ctrl-29", "ctrl-30",
      "ctrl-31", " ", "!", "\"", "#", "$", "%", "&", "'", "(", ")", "*",
      "+", ",", "-", ".", "/", "0", "1", "2", "3", "4", "5", "6", "7", "8",
      "9", ":", ";", "<", "=", ">", "?", "@", "A", "B", "C", "D", "E", "F",
      "G", "H", "I", "J", "K", "L", "M", "N", "O", "P", "Q", "R", "S", "T",
      "U", "V", "W", "X", "Y", "Z", "[", "\\", "]", "^", "_", Backquote,
      "a", "b", "c", "d", "e", "f", "g", "h", "i", "j", "k", "l", "m", "n",
      "o", "p", "q", "r", "s", "t", "u", "v", "w", "x", "y", "z", "{", "|",
      "}", "~", "ctrl-127">>

HexDigits == <<"0", "1", "2", "3", "4", "5", "6", "7", "8", "9",
               "A", "B", "C", "D", "E", "F">>
LowerHexDigits == <<"a", "b", "c", "d", "e", "f">>

IsHexDigit(c) ==
    \/ \E n \in 1..Len(HexDigits) : HexDigits[n] = c
    \/ \E n \in 1..Len(LowerHexDigits) : LowerHexDigits[n] = c

HexValue(c) ==
    IF \E n \in 1..Len(HexDigits) : HexDigits[n] = c
    THEN (CHOOSE n \in 1..Len(HexDigits) : HexDigits[n] = c) - 1
    ELSE (CHOOSE n \in 1..Len(LowerHexDigits) : LowerHexDigits[n] = c) + 9

\* the escape %XX at position at of s, <<>> when there is none
EscapeAt(s, at) ==
    IF /\ at + 2 <= Len(s)
       /\ s[at] = "%"
       /\ IsHexDigit(s[at + 1])
       /\ IsHexDigit(s[at + 2])
    THEN <<16 * HexValue(s[at + 1]) + HexValue(s[at + 2])>>
    ELSE <<>>

\* the bytes that follow the first byte of a UTF-8 sequence, -1 for a byte
\* that starts no sequence
Continuations(byte) ==
    IF byte < 128 THEN 0
    ELSE IF byte >= 194 /\ byte <= 223 THEN 1
    ELSE IF byte >= 224 /\ byte <= 239 THEN 2
    ELSE IF byte >= 240 /\ byte <= 244 THEN 3
    ELSE -1

URIError == [ok |-> FALSE, value |-> <<>>]

RECURSIVE decodeFrom(_, _)
\* decodeURIComponent from position at on: the decoded characters, or the
\* URIError of an escape that is malformed
decodeFrom(s, at) ==
    IF at > Len(s) THEN [ok |-> TRUE, value |-> <<>>]
    ELSE IF s[at] # "%"
    THEN LET rest == decodeFrom(s, at + 1)
         IN  [ok |-> rest.ok,
              value |-> IF rest.ok THEN <<s[at]>> \o rest.value ELSE <<>>]
    ELSE LET byte == EscapeAt(s, at)
             more == IF byte = <<>> THEN -1 ELSE Continuations(byte[1])
             continued ==
                 \A k \in 1..more :
                     LET next == EscapeAt(s, at + 3 * k)
                     IN  next # <<>> /\ next[1] >= 128 /\ next[1] <= 191
         IN  IF more < 0 \/ ~continued THEN URIError
             ELSE LET rest == decodeFrom(s, at + 3 * (more + 1))
                      char == IF more = 0 THEN Ascii[byte[1] + 1]
                              ELSE "non-ascii"
                  IN  [ok |-> rest.ok,
                       value |-> IF rest.ok THEN <<char>> \o rest.value
                                 ELSE <<>>]

decodeURIComponent(s) == decodeFrom(s, 1)

\* path.resolve(path.dirname(markdownFilePath), decodedPath): the directory
\* of the document and the decoded name; raised when decodeURIComponent
\* throws
resolveImagePath(markdownFilePath, imagePath) ==
    LET decodedPath == decodeURIComponent(imagePath)
    IN  [raised |-> ~decodedPath.ok,
         path |-> [dir |-> Dirname(markdownFilePath),
                   name |-> decodedPath.value]]

(***************************************************************************)
(* parser/blocks.ts: parseMarkdownBlocks.  A line is the sequence of its   *)
(* characters, the lines are numbered from 1, and an anchored regular      *)
(* expression is matched from the head of the line.                        *)
(***************************************************************************)
\* \s, for the white space a line can hold
Whitespace == {" ", "\t"}
\* \d
Digits == {"0", "1", "2", "3", "4", "5", "6", "7", "8", "9"}
\* \w
WordCharacters == Letters \cup Digits \cup {"_"}

RECURSIVE RunIn(_, _, _)
\* the characters of the class from position at on
RunIn(s, at, class) ==
    IF at > Len(s) \/ s[at] \notin class THEN 0
    ELSE 1 + RunIn(s, at + 1, class)

\* s.slice(at - 1)
From(s, at) == IF at > Len(s) THEN <<>> ELSE SubSeq(s, at, Len(s))

trimStart(s) == From(s, 1 + RunIn(s, 1, Whitespace))

RECURSIVE trimEnd(_)
trimEnd(s) ==
    IF s # <<>> /\ s[Len(s)] \in Whitespace
    THEN trimEnd(SubSeq(s, 1, Len(s) - 1))
    ELSE s

trim(s) == trimEnd(trimStart(s))

RECURSIVE join(_)
\* parts.join("\n")
join(texts) ==
    IF texts = <<>> THEN <<>>
    ELSE IF Len(texts) = 1 THEN texts[1]
    ELSE texts[1] \o <<"\n">> \o join(Tail(texts))

\* \s+(.+)$ at position at: the white space gives its last character to
\* the group when nothing follows it
Spaced(s, at) ==
    LET ws == RunIn(s, at, Whitespace)
    IN  IF ws >= 1 /\ at + ws <= Len(s)
        THEN [found |-> TRUE, text |-> From(s, at + ws)]
        ELSE IF ws >= 2 THEN [found |-> TRUE, text |-> <<s[Len(s)]>>]
        ELSE [found |-> FALSE, text |-> <<>>]

isDivider(line) ==
    trim(line) \in {<<"-", "-", "-">>, <<"*", "*", "*">>}

\* /^(#{1,3})\s+(.+)$/
isHeading(line) ==
    LET level == RunIn(line, 1, {"#"})
        rest == Spaced(line, level + 1)
    IN  [found |-> level \in 1..3 /\ rest.found, level |-> level,
         text |-> rest.text]

\* /^```(\w*)\s*$/
isCodeFence(line) ==
    LET word == RunIn(line, 4, WordCharacters)
        ws == RunIn(line, 4 + word, Whitespace)
    IN  [found |-> /\ StartsWithAt(line, 1, <<Backquote, Backquote, Backquote>>)
                   /\ 3 + word + ws = Len(line),
         language |-> SubSeq(line, 4, 3 + word)]

\* line.trim().startsWith("```")
closesFence(line) ==
    StartsWithAt(trim(line), 1, <<Backquote, Backquote, Backquote>>)

isBlockMathStart(line) == StartsWithAt(trim(line), 1, <<"$", "$">>)

\* /^>\s*\[!(\w+)\]\s*(.*)?$/
isCallout(line) ==
    LET ws == RunIn(line, 2, Whitespace)
        word == RunIn(line, 4 + ws, WordCharacters)
        after == 5 + ws + word
    IN  [found |-> /\ StartsWithAt(line, 1, <<">">>)
                   /\ StartsWithAt(line, 2 + ws, <<"[", "!">>)
                   /\ word >= 1
                   /\ StartsWithAt(line, 4 + ws + word, <<"]">>),
         type |-> SubSeq(line, 4 + ws, 3 + ws + word),
         title |-> From(line, after + RunIn(line, after, Whitespace))]

\* /^>\s+/
isBlockquote(line) ==
    StartsWithAt(line, 1, <<">">>) /\ RunIn(line, 2, Whitespace) >= 1

\* /^(\s*)-\s+\[([ xX])\]\s+(.+)$/
isTaskItem(line) ==
    LET indent == RunIn(line, 1, Whitespace)
        ws == RunIn(line, indent + 2, Whitespace)
        box == indent + 2 + ws
        rest == Spaced(line, box + 3)
    IN  [found |-> /\ StartsWithAt(line, indent + 1, <<"-">>)
                   /\ ws >= 1
                   /\ StartsWithAt(line, box, <<"[">>)
                   /\ box + 1 <= Len(line)
                   /\ line[box + 1] \in {" ", "x", "X"}
                   /\ StartsWithAt(line, box + 2, <<"]">>)
                   /\ rest.found,
         indent |-> indent,
         checked |-> box + 1 <= Len(line) /\ line[box + 1] \in {"x", "X"},
         text |-> rest.text]

\* /^(\s*)[-*]\s+(.+)$/
isBulletedItem(line) ==
    LET indent == RunIn(line, 1, Whitespace)
        rest == Spaced(line, indent + 2)
    IN  [found |-> /\ \/ StartsWithAt(line, indent + 1, <<"-">>)
                      \/ StartsWithAt(line, indent + 1, <<"*">>)
                   /\ rest.found,
         indent |-> indent, text |-> rest.text]

\* /^(\s*)\d+\.\s+(.+)$/
isNumberedItem(line) ==
    LET indent == RunIn(line, 1, Whitespace)
        digits == RunIn(line, indent + 1, Digits)
        rest == Spaced(line, indent + digits + 2)
    IN  [found |-> /\ digits >= 1
                   /\ StartsWithAt(line, indent + digits + 1, <<".">>)
                   /\ rest.found,
         indent |-> indent, text |-> rest.text]

\* /\|/
isTableRow(line) == \E k \in 1..Len(line) : line[k] = "|"

RECURSIVE SeparatorCells(_, _, _)
\* (\|\s*[-:]+\s*)+\|?\s*$ from position at, after count cells
SeparatorCells(line, at, count) ==
    LET cell == at + 1 + RunIn(line, at + 1, Whitespace)
        dashes == RunIn(line, cell, {"-", ":"})
        bar == IF StartsWithAt(line, at, <<"|">>) THEN 1 ELSE 0
    IN  IF bar = 1 /\ dashes >= 1
        THEN SeparatorCells(line,
                 cell + dashes + RunIn(line, cell + dashes, Whitespace),
                 count + 1)
        ELSE /\ count >= 1
             /\ at + bar + RunIn(line, at + bar, Whitespace) = Len(line) + 1

\* /^\s*\|?\s*[-:]+\s*(\|\s*[-:]+\s*)+\|?\s*$/
isTableSeparator(line) ==
    LET bar == 1 + RunIn(line, 1, Whitespace)
        first == IF StartsWithAt(line, bar, <<"|">>) THEN bar + 1 ELSE bar
        cell == first + RunIn(line, first, Whitespace)
        dashes == RunIn(line, cell, {"-", ":"})
    IN  /\ dashes >= 1
        /\ SeparatorCells(line,
               cell + dashes + RunIn(line, cell + dashes, Whitespace), 0)

NoImage ==
    [found |-> FALSE, raised |-> FALSE, source |-> <<>>, caption |-> <<>>]

\* a local image: resolveImagePath throws when decodeURIComponent does
LocalImage(markdownFilePath, url, caption) ==
    LET resolved == resolveImagePath(markdownFilePath, url)
    IN  [found |-> TRUE, raised |-> resolved.raised,
         source |-> <<[type |-> "local", path |-> resolved.path]>>,
         caption |-> caption]

\* parseImageLine(line, markdownFilePath); /^!\[([^\]]*)\]\(([^)]+)\)$/ and
\* then /^!\[\[([^\]]+)\]\]$/ on the trimmed line
parseImageLine(line, markdownFilePath) ==
    LET trimmed == trim(line)
        alt == RunLength(trimmed, 3, {"]"})
        urlAt == 5 + alt
        url == RunLength(trimmed, urlAt, {")"})
        embed == RunLength(trimmed, 4, {"]"})
    IN  IF /\ StartsWithAt(trimmed, 1, <<"!", "[">>)
           /\ StartsWithAt(trimmed, 3 + alt, <<"]", "(">>)
           /\ url >= 1
           /\ StartsWithAt(trimmed, urlAt + url, <<")">>)
           /\ urlAt + url = Len(trimmed)
        THEN IF IsHttpUrl(SubSeq(trimmed, urlAt, urlAt + url - 1))
             THEN [found |-> TRUE, raised |-> FALSE,
                   source |-> <<[type |-> "external",
                                 url |-> SubSeq(trimmed, urlAt,
                                                urlAt + url - 1)]>>,
                   caption |-> parseInline(SubSeq(trimmed, 3, 2 + alt))]
             ELSE LocalImage(markdownFilePath,
                             SubSeq(trimmed, urlAt, urlAt + url - 1),
                             parseInline(SubSeq(trimmed, 3, 2 + alt)))
        ELSE IF /\ StartsWithAt(trimmed, 1, <<"!", "[", "[">>)
                /\ embed >= 1
                /\ StartsWithAt(trimmed, 4 + embed, <<"]", "]">>)
                /\ 5 + embed = Len(trimmed)
        THEN LocalImage(markdownFilePath, SubSeq(trimmed, 4, 3 + embed), <<>>)
        ELSE NoImage

\* line.replace(/^>\s?/, "")
Unquoted(line) ==
    IF ~StartsWithAt(line, 1, <<">">>) THEN line
    ELSE IF Len(line) >= 2 /\ line[2] \in Whitespace THEN From(line, 3)
    ELSE From(line, 2)

RECURSIVE collectQuoteLines(_, _)
\* the index after the quoted lines that start at startIndex
collectQuoteLines(ls, startIndex) ==
    IF /\ startIndex <= Len(ls)
       /\ isBlockquote(ls[startIndex])
       /\ ~isCallout(ls[startIndex]).found
    THEN collectQuoteLines(ls, startIndex + 1)
    ELSE startIndex

RECURSIVE CalloutEnd(_, _)
\* the index after the quoted lines that follow a callout line
CalloutEnd(ls, i) ==
    IF i <= Len(ls) /\ isBlockquote(ls[i]) THEN CalloutEnd(ls, i + 1) ELSE i

RECURSIVE CodeEnd(_, _)
\* the index of the line that closes the fence of code, or the index after
\* the last line
CodeEnd(ls, i) ==
    IF i <= Len(ls) /\ ~closesFence(ls[i]) THEN CodeEnd(ls, i + 1) ELSE i

RECURSIVE MathEnd(_, _)
\* the index of the line that closes the block of math, or the index after
\* the last line
MathEnd(ls, i) ==
    IF i <= Len(ls) /\ ~isBlockMathStart(ls[i]) THEN MathEnd(ls, i + 1) ELSE i

\* the item of a list a line is, in the order parseList tries them
ListItem(line) ==
    LET taskMatch == isTaskItem(line)
        bulletMatch == isBulletedItem(line)
        numberMatch == isNumberedItem(line)
    IN  IF taskMatch.found
        THEN [found |-> TRUE, type |-> "to_do", indent |-> taskMatch.indent,
              text |-> taskMatch.text]
        ELSE IF bulletMatch.found
        THEN [found |-> TRUE, type |-> "bulleted_list_item",
              indent |-> bulletMatch.indent, text |-> bulletMatch.text]
        ELSE IF numberMatch.found
        THEN [found |-> TRUE, type |-> "numbered_list_item",
              indent |-> numberMatch.indent, text |-> numberMatch.text]
        ELSE [found |-> FALSE, type |-> "", indent |-> 0, text |-> <<>>]

RECURSIVE Popped(_, _)
\* the stack once the entries of at least this indent are popped
Popped(stack, normalizedIndent) ==
    IF stack # <<>> /\ stack[Len(stack)].indent >= normalizedIndent
    THEN Popped(SubSeq(stack, 1, Len(stack) - 1), normalizedIndent)
    ELSE stack

\* ParentHasChildren that takes every parent
AnyParent(parent) == TRUE

\* "children" in parent: a to_do block has no children
ParentHasChildren(parent) == parent.type # "to_do"

\* the block of the item of line i, under the parent at the top of the stack
ListBlock(item, i, open) ==
    LET parent == IF open = <<>> THEN <<>> ELSE <<open[Len(open)].block>>
    IN  [type |-> item.type, richText |-> parseInline(item.text),
         line |-> i,
         parent |-> IF parent = <<>> THEN 0 ELSE parent[1].line,
         held |-> \/ parent = <<>>
                  \/ /\ ParentHasChildren(parent[1])
                     /\ parent[1].held]

\* the stack and the items once the item of line i is pushed, if it is one
Pushed(line, i, stack, items) ==
    CHOOSE pushed \in
        { IF ~item.found
          THEN [found |-> FALSE, stack |-> stack, items |-> items]
          ELSE CHOOSE onto \in
                   { [found |-> TRUE,
                      stack |-> Append(open,
                                    [indent |-> item.indent \div 2,
                                     block |-> ListBlock(item, i, open)]),
                      items |-> Append(items, ListBlock(item, i, open))] :
                     open \in {Popped(stack, item.indent \div 2)} } : TRUE :
          item \in {ListItem(line)} } : TRUE

RECURSIVE parseList(_, _, _, _)
\* parseList(lines, startIndex): the items in the order of their lines, each
\* with the line of its parent (0 at the top) and whether it is held by the
\* blocks that are returned
parseList(ls, i, stack, items) ==
    IF i > Len(ls) THEN [items |-> items, nextIndex |-> i]
    ELSE CHOOSE result \in
             { IF ~pushed.found THEN [items |-> items, nextIndex |-> i]
               ELSE parseList(ls, i + 1, pushed.stack, pushed.items) :
               pushed \in {Pushed(ls[i], i, stack, items)} } : TRUE

RECURSIVE split(_, _)
\* s.split(separator)
split(s, separator) ==
    LET cell == RunLength(s, 1, {separator})
    IN  IF cell = Len(s) THEN <<s>>
        ELSE <<SubSeq(s, 1, cell)>> \o split(From(s, cell + 2), separator)

\* the cells of a row of a table
Cells(line) ==
    LET trimmed == trim(line)
        headless == IF StartsWithAt(trimmed, 1, <<"|">>)
                    THEN From(trimmed, 2) ELSE trimmed
        bare == IF headless # <<>> /\ headless[Len(headless)] = "|"
                THEN SubSeq(headless, 1, Len(headless) - 1) ELSE headless
        cells == split(bare, "|")
    IN  [k \in DOMAIN cells |-> parseInline(trim(cells[k]))]

RECURSIVE TableRows(_, _, _, _)
TableRows(ls, startIndex, i, rows) ==
    IF i > Len(ls) \/ ~isTableRow(ls[i])
    THEN [rows |-> rows, nextIndex |-> i]
    ELSE IF i = startIndex + 1 THEN TableRows(ls, startIndex, i + 1, rows)
    ELSE TableRows(ls, startIndex, i + 1, Append(rows, Cells(ls[i])))

\* parseTable(lines, startIndex)
parseTable(ls, startIndex) ==
    IF startIndex + 1 > Len(ls)
    THEN [block |-> <<>>, nextIndex |-> startIndex]
    ELSE IF ~isTableRow(ls[startIndex]) \/ ~isTableSeparator(ls[startIndex + 1])
    THEN [block |-> <<>>, nextIndex |-> startIndex]
    ELSE LET table == TableRows(ls, startIndex, startIndex, <<>>)
         IN  [block |-> <<[type |-> "table", rows |-> table.rows]>>,
              nextIndex |-> table.nextIndex]

\* the test that ends a paragraph before the line at i; parseImageLine is
\* reached when none of the tests before it holds
ParagraphBreak(ls, i, markdownFilePath) ==
    LET currentLine == ls[i]
        nextLine == IF i + 1 <= Len(ls) THEN ls[i + 1] ELSE <<>>
    IN  IF \/ isHeading(currentLine).found
           \/ isCodeFence(currentLine).found
           \/ isBlockMathStart(currentLine)
           \/ isCallout(currentLine).found
           \/ isBlockquote(currentLine)
           \/ isDivider(currentLine)
        THEN [break |-> TRUE, raised |-> FALSE]
        ELSE LET image == parseImageLine(currentLine, markdownFilePath)
             IN  IF image.raised THEN [break |-> FALSE, raised |-> TRUE]
                 ELSE [break |-> \/ image.found
                                 \/ /\ isTableRow(currentLine)
                                    /\ isTableSeparator(nextLine)
                                 \/ isTaskItem(currentLine).found
                                 \/ isBulletedItem(currentLine).found
                                 \/ isNumberedItem(currentLine).found,
                       raised |-> FALSE]

RECURSIVE ParagraphEnd(_, _, _)
\* the index after the lines of the paragraph that starts at i
ParagraphEnd(ls, i, markdownFilePath) ==
    IF i > Len(ls) \/ trim(ls[i]) = <<>>
    THEN [nextIndex |-> i, raised |-> FALSE]
    ELSE CHOOSE end \in
             { IF test.raised THEN [nextIndex |-> i, raised |-> TRUE]
               ELSE IF test.break THEN [nextIndex |-> i, raised |-> FALSE]
               ELSE ParagraphEnd(ls, i + 1, markdownFilePath) :
               test \in {ParagraphBreak(ls, i, markdownFilePath)} } : TRUE

\* Turn that leaves the index one line short
TurnOneShort(kind, newBlocks, nextIndex, taken) ==
    [kind |-> kind, raised |-> FALSE, blocks |-> newBlocks,
     nextIndex |-> nextIndex - 1, lines |-> taken]

\* what one turn of the loop of parseMarkdownBlocks does
Turn(kind, newBlocks, nextIndex, taken) ==
    [kind |-> kind, raised |-> FALSE, blocks |-> newBlocks,
     nextIndex |-> nextIndex, lines |-> taken]

Raised(kind) ==
    [kind |-> kind, raised |-> TRUE, blocks |-> <<>>, nextIndex |-> 0,
     lines |-> {}]

\* the lines from..to that there are
Taken(ls, from, to) == from..(IF to < Len(ls) THEN to ELSE Len(ls))

\* the turn for a fence of code that opens at line i
CodeTurn(ls, i, codeFence) ==
    LET end == CodeEnd(ls, i + 1)
    IN  Turn("code",
             <<[type |-> "code",
                language |-> IF codeFence.language = <<>>
                             THEN <<"plain text">> ELSE codeFence.language,
                text |-> join(SubSeq(ls, i + 1, end - 1))]>>,
             end + 1, Taken(ls, i, end))

\* the turn for a line that starts with $$
MathTurn(ls, i, trimmed) ==
    IF /\ Len(trimmed) > 4
       /\ StartsWithAt(trimmed, Len(trimmed) - 1, <<"$", "$">>)
    THEN Turn("equation",
              <<[type |-> "equation",
                 expression |-> trim(SubSeq(trimmed, 3, Len(trimmed) - 2))]>>,
              i + 1, {i})
    ELSE LET end == MathEnd(ls, i + 1)
         IN  Turn("equation",
                  <<[type |-> "equation",
                     expression |-> join(SubSeq(ls, i + 1, end - 1))]>>,
                  end + 1, Taken(ls, i, end))

\* the turn for a callout line
CalloutTurn(ls, i, calloutMatch) ==
    LET end == CalloutEnd(ls, i + 1)
        title == trim(calloutMatch.title)
        calloutLines == [k \in 1..(end - i - 1) |-> Unquoted(ls[i + k])]
    IN  Turn("callout",
             <<[type |-> "callout",
                callout |-> lowerCase(calloutMatch.type),
                richText |->
                    (IF title # <<>>
                     THEN <<Annotated(title \o <<"\n">>, [bold |-> TRUE])>>
                     ELSE <<>>)
                        \o parseInline(join(calloutLines))]>>,
             end, i..(end - 1))

\* the turn for a quoted line
QuoteTurn(ls, i) ==
    LET end == collectQuoteLines(ls, i)
        quoted == [k \in 1..(end - i) |-> Unquoted(ls[i + k - 1])]
    IN  Turn("quote",
             <<[type |-> "quote", richText |-> parseInline(join(quoted))]>>,
             end, i..(end - 1))

\* the turn for a line that is the head of no other block: a table, a list
\* or a paragraph
PlainTurn(ls, i, markdownFilePath) ==
    CHOOSE turn \in
        { IF tableResult.block # <<>>
          THEN Turn("table", tableResult.block, tableResult.nextIndex,
                    i..(tableResult.nextIndex - 1))
          ELSE IF listResult.items # <<>>
          THEN LET heldItems ==
                       SelectSeq(listResult.items, LAMBDA item : item.held)
               IN  Turn("list", heldItems, listResult.nextIndex,
                        {heldItems[k].line : k \in DOMAIN heldItems})
          ELSE IF paragraph.raised THEN Raised("paragraph")
          ELSE IF paragraph.nextIndex > i
          THEN Turn("paragraph",
                    <<[type |-> "paragraph",
                       richText |-> parseInline(
                           join(SubSeq(ls, i, paragraph.nextIndex - 1)))]>>,
                    paragraph.nextIndex, i..(paragraph.nextIndex - 1))
          ELSE Turn("none", <<>>, i + 1, {}) :
          tableResult \in {parseTable(ls, i)},
          listResult \in {parseList(ls, i, <<>>, <<>>)},
          paragraph \in {ParagraphEnd(ls, i, markdownFilePath)} } : TRUE

\* one turn of the while loop of parseMarkdownBlocks, at line i
parseMarkdownBlocksStep(ls, i, markdownFilePath) ==
    LET line == ls[i]
    IN  IF trim(line) = <<>> THEN Turn("blank", <<>>, i + 1, {})
        ELSE IF isCodeFence(line).found
        THEN CodeTurn(ls, i, isCodeFence(line))
        ELSE IF isBlockMathStart(line) THEN MathTurn(ls, i, trim(line))
        ELSE IF isCallout(line).found THEN CalloutTurn(ls, i, isCallout(line))
        ELSE IF isBlockquote(line) THEN QuoteTurn(ls, i)
        ELSE IF isHeading(line).found
        THEN Turn("heading",
                  <<[type |-> "heading", level |-> isHeading(line).level,
                     richText |-> parseInline(isHeading(line).text)]>>,
                  i + 1, {i})
        ELSE IF isDivider(line)
        THEN Turn("divider", <<[type |-> "divider"]>>, i + 1, {i})
        ELSE LET imageBlock == parseImageLine(line, markdownFilePath)
             IN  IF imageBlock.raised THEN Raised("image")
                 ELSE IF imageBlock.found
                 THEN Turn("image",
                           <<[type |-> "image",
                              source |-> imageBlock.source[1],
                              caption |-> imageBlock.caption]>>,
                           i + 1, {i})
                 ELSE PlainTurn(ls, i, markdownFilePath)

(***************************************************************************)
(* parseFootnotes (parser/blocks.ts) and replaceFootnoteRefs               *)
(* (parser/inline.ts), on the text of the whole document: the lines joined *)
(* by "\n".  A superscript digit is written "sup-0" .. "sup-9".            *)
(***************************************************************************)
SUPERSCRIPTS ==
    <<"sup-0", "sup-1", "sup-2", "sup-3", "sup-4", "sup-5", "sup-6", "sup-7",
      "sup-8", "sup-9">>

\* digits.map(digit => SUPERSCRIPTS[Number.parseInt(digit, 10)])
Superscripted(digits) ==
    [k \in DOMAIN digits |-> SUPERSCRIPTS[HexValue(digits[k]) + 1]]

\* \s over a text of several lines
TextWhitespace == Whitespace \cup {"\n"}

\* String.prototype.trim over a text of several lines
RECURSIVE trimText(_)
trimText(s) ==
    IF s = <<>> THEN s
    ELSE IF s[1] \in TextWhitespace THEN trimText(Tail(s))
    ELSE IF s[Len(s)] \in TextWhitespace
    THEN trimText(SubSeq(s, 1, Len(s) - 1))
    ELSE s

\* /^\[\^(\w+)\]:\s*(.+)$/m at the line start p: the white space after the
\* colon runs over the ends of lines and gives back what the value needs,
\* and the value runs to the end of its line
footnoteDefAt(s, p) ==
    LET key == RunIn(s, p + 2, WordCharacters)
        q == p + key + 4
        ws == RunIn(s, q, TextWhitespace)
        starts == {n \in 0..ws : q + n <= Len(s) /\ s[q + n] # "\n"}
        n == CHOOSE n \in starts : \A m \in starts : m <= n
        last == q + n + RunLength(s, q + n, {"\n"}) - 1
    IN  IF /\ StartsWithAt(s, p, <<"[", "^">>)
           /\ key >= 1
           /\ StartsWithAt(s, p + key + 2, <<"]", ":">>)
           /\ starts # {}
        THEN [found |-> TRUE, key |-> SubSeq(s, p + 2, p + key + 1),
              value |-> SubSeq(s, q + n, last), last |-> last]
        ELSE [found |-> FALSE, key |-> <<>>, value |-> <<>>, last |-> 0]

\* footnotes.set(key, value): a Map keeps the place of a key it holds
setFootnote(footnotes, key, value) ==
    IF \E k \in DOMAIN footnotes : footnotes[k].key = key
    THEN [k \in DOMAIN footnotes |->
             IF footnotes[k].key = key
             THEN [key |-> key, value |-> value] ELSE footnotes[k]]
    ELSE Append(footnotes, [key |-> key, value |-> value])

RECURSIVE footnoteScan(_, _, _, _)
\* the definitions from the line start p on: the text without them, and the
\* map of them
footnoteScan(s, p, body, footnotes) ==
    IF p > Len(s) THEN [body |-> body, footnotes |-> footnotes]
    ELSE CHOOSE result \in
             { IF m.found
               THEN footnoteScan(s, m.last + 2,
                        body \o (IF m.last < Len(s) THEN <<"\n">> ELSE <<>>),
                        setFootnote(footnotes, m.key, m.value))
               ELSE footnoteScan(s, p + RunLength(s, p, {"\n"}) + 1,
                        body \o SubSeq(s, p, IF p + RunLength(s, p, {"\n"})
                                                    <= Len(s)
                                                THEN p + RunLength(s, p, {"\n"})
                                                ELSE Len(s)),
                        footnotes) :
               m \in {footnoteDefAt(s, p)} } : TRUE

\* parseFootnotes(content)
parseFootnotes(s) ==
    CHOOSE result \in
        { [body |-> trimText(scanned.body), footnotes |-> scanned.footnotes] :
          scanned \in {footnoteScan(s, 1, <<>>, <<>>)} } : TRUE

RECURSIVE replaceFootnoteRefs(_)
\* text.replace(/\[\^(\d+)\]/g, ...)
replaceFootnoteRefs(s) ==
    IF s = <<>> THEN s
    ELSE LET num == RunIn(s, 3, Digits)
         IN  IF /\ StartsWithAt(s, 1, <<"[", "^">>)
                /\ num >= 1
                /\ StartsWithAt(s, num + 3, <<"]">>)
             THEN Superscripted(SubSeq(s, 3, num + 2))
                      \o replaceFootnoteRefs(From(s, num + 4))
             ELSE <<s[1]>> \o replaceFootnoteRefs(Tail(s))

\* the lines parseMarkdownBlocks loops over
bodyLines(contentLines) ==
    split(replaceFootnoteRefs(parseFootnotes(join(contentLines)).body), "\n")

\* the blocks parseMarkdownBlocks appends for the footnotes
footnoteBlocks(footnotes) ==
    IF footnotes = <<>> THEN <<>>
    ELSE <<[type |-> "divider"]>>
             \o [k \in DOMAIN footnotes |->
                    [type |-> "paragraph",
                     richText |-> parseInline(trimText(
                         [j \in DOMAIN footnotes[k].key |->
                             IF footnotes[k].key[j] \in Digits
                             THEN SUPERSCRIPTS[HexValue(footnotes[k].key[j]) + 1]
                             ELSE footnotes[k].key[j]]
                         \o <<" ">> \o footnotes[k].value))]]

(***************************************************************************)
(* The documents and the scans of them.                                    *)
(***************************************************************************)
DocA == <<"doc", "a.md">>
DocB == <<"doc", "A", "B", "note.md">>
Docs == {DocA, DocB}

\* a document of n paragraphs parses to n blocks; its bytes are named by n
BigDoc == MAX_BLOCKS_PER_REQUEST + 1
Contents == {1, BigDoc}
\* the documents that get edited
Editable == {DocA}
\* the documents that embed one local image, which exists and is small
WithImage == {DocB}
\* the documents that embed one local image that does not exist
WithMissingImage == {DocA}

\* the text of the first paragraph of the document: a.md links to the note
\* with a wiki-link, the note links to a.md with a relative Markdown link
Paragraph(filePath) ==
    IF filePath = DocA
    THEN <<"[", "[", "n", "o", "t", "e", "|", "n", "]", "]", "!">>
    ELSE <<"[", "a", "]", "(", "a", ".", "m", "d", ")">>

\* the targets of the image lines of the document
ImageTargets(filePath) ==
    (IF filePath \in WithImage THEN <<(<<"p", ".", "p", "n", "g">>)>> ELSE <<>>)
        \o (IF filePath \in WithMissingImage
            THEN <<(<<"n", "o", "%", "2", "0", "p", "i", "c">>)>> ELSE <<>>)

\* parseImageLine for a target that is no http(s) URL
ImageSources(filePath) ==
    [k \in DOMAIN ImageTargets(filePath) |->
        [type |-> "local",
         path |-> resolveImagePath(filePath, ImageTargets(filePath)[k]).path]]

\* the image files on disk
ExistingImages ==
    {resolveImagePath(d, <<"p", ".", "p", "n", "g">>).path : d \in WithImage}

\* scanInput("doc/a.md")
ScanFile ==
    [isDirectory |-> FALSE, rootDir |-> <<"doc">>, rootName |-> "a",
     mdFiles |-> <<DocA>>, directories |-> <<>>, createRootPage |-> FALSE]

\* scanInput("doc")
ScanDir ==
    [isDirectory |-> TRUE, rootDir |-> <<"doc">>, rootName |-> "doc",
     mdFiles |-> <<DocB, DocA>>,
     directories |-> deriveDirectories(<<"doc">>, <<DocB, DocA>>),
     createRootPage |-> TRUE]

\* scanMultipleInputs(["doc/a.md", "doc/A"])
ScanMulti ==
    [isDirectory |-> TRUE, rootDir |-> <<"doc">>, rootName |-> "doc",
     mdFiles |-> <<DocA, DocB>>,
     directories |-> relevantDirs(<< <<"doc", "A">> >>,
                        deriveDirectories(<<"doc">>, <<DocA, DocB>>)),
     createRootPage |-> FALSE]

\* scanMultipleInputs(["doc/a.md", "doc/A/B"]): of the directories derived
\* from the documents only those at or below an input directory are kept
ScanDeep ==
    [isDirectory |-> TRUE, rootDir |-> <<"doc">>, rootName |-> "doc",
     mdFiles |-> <<DocA, DocB>>,
     directories |-> relevantDirs(<< <<"doc", "A", "B">> >>,
                        deriveDirectories(<<"doc">>, <<DocA, DocB>>)),
     createRootPage |-> FALSE]

\* scanInput of a directory without documents
ScanEmpty ==
    [isDirectory |-> TRUE, rootDir |-> <<"empty">>, rootName |-> "empty",
     mdFiles |-> <<>>, directories |-> <<>>, createRootPage |-> TRUE]

Scans == {ScanFile, ScanDir, ScanMulti, ScanDeep, ScanEmpty}

\* a ScanResult made by the caller of importMarkdown, as the tests of
\* page-creator make them: the directory of DocB is not in directories
ScanUnlisted ==
    [isDirectory |-> TRUE, rootDir |-> <<"doc">>, rootName |-> "doc",
     mdFiles |-> <<DocA, DocB>>, directories |-> <<>>,
     createRootPage |-> TRUE]

\* the same with DocB first
ScanUnlistedFirst == [ScanUnlisted EXCEPT !.mdFiles = <<DocB, DocA>>]

GivenScans == {ScanDir, ScanUnlisted, ScanUnlistedFirst}

(***************************************************************************)
(* sync-state.ts                                                           *)
(***************************************************************************)
EmptyMap == [k \in {} |-> 0]

Put(m, k, v) == (k :> v) @@ m

Has(m, k) == k \in DOMAIN m

\* computeHash: sha256 of the bytes, hex
computeHash(bytes) == <<"sha256", bytes>>

\* loadSyncState without the comparison of the destination ids
loadSyncStateUnchecked(destinationPageId) ==
    IF disk # <<>>
    THEN [ok |-> TRUE, error |-> <<>>, state |-> disk[1]]
    ELSE [ok |-> TRUE, error |-> <<>>,
          state |-> [destinationPageId |-> destinationPageId,
                     files |-> EmptyMap, directories |-> EmptyMap]]

loadSyncState(destinationPageId) ==
    IF disk # <<>>
    THEN IF disk[1].destinationPageId # destinationPageId
         THEN [ok |-> FALSE,
               error |-> <<"Destination page ID mismatch",
                           disk[1].destinationPageId, destinationPageId>>,
               state |-> disk[1]]
         ELSE [ok |-> TRUE, error |-> <<>>, state |-> disk[1]]
    ELSE [ok |-> TRUE, error |-> <<>>,
          state |-> [destinationPageId |-> destinationPageId,
                     files |-> EmptyMap, directories |-> EmptyMap]]

\* saveSyncState whose write is lost
saveSyncStateLost(s) == disk

saveSyncState(s) == <<s>>

(***************************************************************************)
(* page-creator.ts: the decisions of ensureDirectoryPages and of the       *)
(* per-document loop of importMarkdown.                                    *)
(***************************************************************************)
Min(a, b) == IF a < b THEN a ELSE b

IsSubdir(rel) == rel # <<>> /\ rel # <<".">> /\ rel # getRootKey

sortedDirs(scan) ==
    SortByLength(SelectSeq(
        [k \in 1..Len(scan.directories) |->
            toRelativePath(scan.rootDir, scan.directories[k])],
        IsSubdir))

\* state.directories[key]?.notionPageId, as a sequence of at most one id
DirPageId(st, key) ==
    IF Has(st.directories, key) THEN <<st.directories[key].notionPageId>>
    ELSE <<>>

\* what ensureDirectoryPages does about the root entry
RootStep(scan, dryRun, st) ==
    IF ~scan.createRootPage
    THEN IF ~Has(st.directories, getRootKey) THEN "bind" ELSE "keep"
    ELSE IF ~Has(st.directories, getRootKey)
         THEN IF dryRun THEN "dry" ELSE "create"
         ELSE "keep"

\* DirStep without the test for an entry on record
DirStepAgain(dryRun, st, relativeDir) ==
    IF DirPageId(st, getParentKey(relativeDir)) = <<>> THEN "missing"
    ELSE IF dryRun THEN "dry"
    ELSE "create"

\* what the loop of ensureDirectoryPages does about one directory
DirStep(dryRun, st, relativeDir) ==
    IF Has(st.directories, relativeDir) THEN "keep"
    ELSE IF DirPageId(st, getParentKey(relativeDir)) = <<>> THEN "missing"
    ELSE IF dryRun THEN "dry"
    ELSE "create"

relativePathOf(scan, filePath) ==
    IF scan.isDirectory THEN toRelativePath(scan.rootDir, filePath)
    ELSE <<Basename(filePath)>>

\* shouldUpdate with the comparison of the hashes inverted
shouldUpdateInverted(force, st, relativePath, fileHash) ==
    \/ force
    \/ ~Has(st.files, relativePath)
    \/ st.files[relativePath].contentHash = fileHash

\* shouldUpdate that ignores options.force
shouldUpdateNoForce(force, st, relativePath, fileHash) ==
    \/ ~Has(st.files, relativePath)
    \/ st.files[relativePath].contentHash # fileHash

shouldUpdate(force, st, relativePath, fileHash) ==
    \/ force
    \/ ~Has(st.files, relativePath)
    \/ st.files[relativePath].contentHash # fileHash

\* the parent page of a document, as a sequence of at most one id
parentPageIdOf(scan, st, relativePath, rootPageId) ==
    LET fileDir == Dirname(relativePath)
        parentKey == IF fileDir = <<".">> THEN getRootKey ELSE fileDir
    IN  IF scan.isDirectory THEN DirPageId(st, parentKey) ELSE <<rootPageId>>

\* the root page id importMarkdown holds after ensureDirectoryPages
rootPageIdOf(scan, st, destinationPageId) ==
    IF scan.isDirectory THEN st.directories[getRootKey].notionPageId
    ELSE destinationPageId

\* FileStep that creates a page whether or not one is on record
FileStepAlwaysCreate(scan, dryRun, force, st, filePath, destinationPageId) ==
    LET relativePath == relativePathOf(scan, filePath)
        fileHash == computeHash(fs[filePath])
        parent == parentPageIdOf(scan, st, relativePath,
                                 rootPageIdOf(scan, st, destinationPageId))
    IN  IF ~shouldUpdate(force, st, relativePath, fileHash) THEN "skip"
        ELSE IF parent = <<>> THEN "missing"
        ELSE IF dryRun THEN "dry"
        ELSE "create"

\* FileStep without the test of options.dryRun
FileStepNoDryRun(scan, dryRun, force, st, filePath, destinationPageId) ==
    LET relativePath == relativePathOf(scan, filePath)
        fileHash == computeHash(fs[filePath])
        parent == parentPageIdOf(scan, st, relativePath,
                                 rootPageIdOf(scan, st, destinationPageId))
    IN  IF ~shouldUpdate(force, st, relativePath, fileHash) THEN "skip"
        ELSE IF parent = <<>> THEN "missing"
        ELSE IF Has(st.files, relativePath) THEN "replace"
        ELSE "create"

\* FileStep that tests options.dryRun before the parent page
FileStepDryRunFirst(scan, dryRun, force, st, filePath, destinationPageId) ==
    LET relativePath == relativePathOf(scan, filePath)
        fileHash == computeHash(fs[filePath])
        parent == parentPageIdOf(scan, st, relativePath,
                                 rootPageIdOf(scan, st, destinationPageId))
    IN  IF ~shouldUpdate(force, st, relativePath, fileHash) THEN "skip"
        ELSE IF dryRun THEN "dry"
        ELSE IF parent = <<>> THEN "missing"
        ELSE IF Has(st.files, relativePath) THEN "replace"
        ELSE "create"

\* what the loop of importMarkdown does about one document
FileStep(scan, dryRun, force, st, filePath, destinationPageId) ==
    LET relativePath == relativePathOf(scan, filePath)
        fileHash == computeHash(fs[filePath])
        parent == parentPageIdOf(scan, st, relativePath,
                                 rootPageIdOf(scan, st, destinationPageId))
    IN  IF ~shouldUpdate(force, st, relativePath, fileHash) THEN "skip"
        ELSE IF parent = <<>> THEN "missing"
        ELSE IF dryRun THEN "dry"
        ELSE IF Has(st.files, relativePath) THEN "replace"
        ELSE "create"

\* buildBlocksForFile: the number of blocks of the document
buildBlocksForFile(filePath) == fs[filePath]

\* toRichText(segments) of notion/blocks.ts; <<>> stands for undefined
toRichText(segs) ==
    [k \in DOMAIN segs |->
        IF segs[k].type = "equation"
        THEN [type |-> "equation", expression |-> segs[k].text]
        ELSE [type |-> "text",
              content |-> IF "text" \in DOMAIN segs[k]
                          THEN <<segs[k].text>> ELSE <<>>,
              link |-> IF "link" \in DOMAIN segs[k]
                       THEN <<segs[k].link>> ELSE <<>>,
              annotations |-> IF "annotations" \in DOMAIN segs[k]
                              THEN <<segs[k].annotations>> ELSE <<>>]]

\* the paragraph buildBlocksForFile gives for an image that is missing
missingImagePlaceholder(imagePath) ==
    [type |-> "paragraph",
     content |-> <<"[", "Missing image: ", imagePath, "]">>]

\* buildImageBlock that never looks whether the file exists
buildImageBlockUnchecked(source) ==
    [type |-> "image", image |-> "file_upload", path |-> source.path]

\* buildImageBlock(source, caption, options) for a local image
buildImageBlock(source) ==
    IF source.path \notin ExistingImages
    THEN missingImagePlaceholder(source.path)
    ELSE [type |-> "image", image |-> "file_upload", path |-> source.path]

\* the blocks buildNotionBlocks gives for the image lines of the document
imageBlocks(filePath) ==
    [k \in DOMAIN ImageSources(filePath) |->
        buildImageBlock(ImageSources(filePath)[k])]

\* the documents do not change their paragraph nor their image lines, so
\* what is built of them is the same in every invocation: the rich text of
\* the paragraph and the blocks of the image lines, document by document
paragraphBlocks ==
    [filePath \in Docs |-> toRichText(parseInline(Paragraph(filePath)))]

builtImages == [filePath \in Docs |-> imageBlocks(filePath)]

\* the local images buildBlocksForFile uploads for the document
imagesOf(filePath) ==
    Cardinality({k \in DOMAIN builtImages[filePath] :
                    builtImages[filePath][k].type = "image"})

(***************************************************************************)
(* Observation of an invocation.                                           *)
(***************************************************************************)
NoCalls ==
    [create |-> 0, list |-> 0, delete |-> 0, append |-> 0,
     upload |-> 0, send |-> 0]

Running == [status |-> "running", message |-> <<>>, doc |-> <<>>]
Returned == [status |-> "ok", message |-> <<>>, doc |-> <<>>]
\* the error importMarkdown rejects with; doc is the document in progress
Thrown(message, doc) == [status |-> "error", message |-> message, doc |-> doc]

NoScan ==
    [isDirectory |-> FALSE, rootDir |-> <<>>, rootName |-> "",
     mdFiles |-> <<>>, directories |-> <<>>, createRootPage |-> FALSE]

NoRun ==
    [scan |-> NoScan, dest |-> DestId(0), dryRun |-> FALSE, force |-> FALSE,
     fs0 |-> EmptyMap, disk0 |-> <<>>, pages0 |-> 0, calls |-> NoCalls,
     ops |-> <<>>,
     done |-> {}, result |-> [status |-> "none", message |-> <<>>, doc |-> <<>>]]

TotalCalls(r) ==
    r.calls.create + r.calls.list + r.calls.delete + r.calls.append
        + r.calls.upload + r.calls.send

NoState ==
    [destinationPageId |-> DestId(0), files |-> EmptyMap,
     directories |-> EmptyMap]

NoOp ==
    [fn |-> "none", unit |-> "none", key |-> <<>>, parent |-> DryRunId,
     title |-> "", page |-> DryRunId, blocks |-> 0, i |-> 0, listed |-> 0,
     todo |-> 0, phase |-> "none", images |-> 0, hash |-> <<>>,
     sent |-> <<>>]

\* a call of createPageWithBlocks(notion, parent, title, blocks)
CreateOp(unit, key, parent, title, blocks, hash) ==
    [NoOp EXCEPT !.fn = "create", !.unit = unit, !.key = key,
                 !.parent = parent, !.title = title, !.blocks = blocks,
                 !.phase = "create", !.hash = hash]

\* a call of replacePageBlocks(notion, pageId, blocks)
ReplaceOp(key, page, blocks, hash) ==
    [NoOp EXCEPT !.fn = "replace", !.unit = "file", !.key = key,
                 !.page = page, !.blocks = blocks, !.phase = "list",
                 !.hash = hash]

\* the operation starts with the uploads of buildBlocksForFile, if any
Building(o, images) ==
    IF images > 0 THEN [o EXCEPT !.images = images, !.phase = "upload"]
    ELSE o

\* the first request of the operation once the blocks are built
FirstPhase(o) == IF o.fn = "replace" THEN "list" ELSE "create"

\* no call of parseInline
InlineIdle ==
    /\ text = <<>>
    /\ remaining = <<>>
    /\ segments = <<>>
    /\ sources = <<>>
    /\ earliestMatch = NoEarliest

\* no call of parseMarkdownBlocks
BlocksIdle ==
    /\ content = <<>>
    /\ lines = <<>>
    /\ cursor = 0
    /\ entered = 0
    /\ blockList = <<>>
    /\ assigned = {}
    /\ outcome = "idle"

\* no call of uploadLargeFile
UploadIdle ==
    /\ fileSize = 0
    /\ uploadPc = "idle"
    /\ created = <<>>
    /\ parts = <<>>
    /\ completes = 0
    /\ uploadResult = "none"

\* no invocation of importMarkdown yet
EngineIdle ==
    /\ disk = <<>>
    /\ remote = <<>>
    /\ clock = 0
    /\ pc = "idle"
    /\ state = NoState
    /\ idx = 0
    /\ op = NoOp
    /\ run = NoRun
    /\ prev = NoRun

Init ==
    /\ fs \in [Docs -> Contents]
    /\ \A d \in Docs \ Editable : fs[d] = 1
    /\ EngineIdle
    /\ InlineIdle
    /\ BlocksIdle
    /\ UploadIdle

\* importMarkdown returns or throws
Finish(r, result) ==
    /\ run' = [r EXCEPT !.result = result]
    /\ pc' = "idle"
    /\ state' = NoState
    /\ idx' = 0
    /\ op' = NoOp

(***************************************************************************)
(* importMarkdown, up to the first loop.                                   *)
(***************************************************************************)
Invoke(scan, destinationPageId, dryRun, force) ==
    /\ pc = "idle"
    /\ clock < MaxRuns
    /\ clock' = clock + 1
    /\ prev' = run
    /\ LET r == [NoRun EXCEPT !.scan = scan, !.dest = destinationPageId,
                              !.dryRun = dryRun, !.force = force,
                              !.fs0 = fs, !.disk0 = disk,
                              !.pages0 = Len(remote),
                              !.result = Running]
           loaded == loadSyncState(destinationPageId)
       IN  IF scan.isDirectory /\ Len(scan.mdFiles) = 0
           THEN Finish(r, Returned)
           ELSE IF ~loaded.ok
           THEN Finish(r, Thrown(loaded.error, <<>>))
           ELSE /\ run' = r
                /\ state' = loaded.state
                /\ pc' = IF scan.isDirectory THEN "root" ELSE "files"
                /\ idx' = 1
                /\ op' = NoOp
    /\ UNCHANGED <<fs, disk, remote>>
    /\ UNCHANGED unitVars

(***************************************************************************)
(* ensureDirectoryPages.                                                   *)
(***************************************************************************)
EnsureRoot ==
    /\ pc = "root"
    /\ LET step == RootStep(run.scan, run.dryRun, state)
       IN  CASE step = "bind" ->
                  LET s == [state EXCEPT !.directories =
                               Put(@, getRootKey, [notionPageId |-> run.dest])]
                  IN  /\ state' = s
                      /\ disk' = saveSyncState(s)
                      /\ pc' = "dirs" /\ idx' = 1 /\ op' = NoOp
             [] step = "dry" ->
                  /\ state' = [state EXCEPT !.directories =
                                  Put(@, getRootKey, [notionPageId |-> DryRunId])]
                  /\ pc' = "dirs" /\ idx' = 1 /\ op' = NoOp
                  /\ UNCHANGED disk
             [] step = "create" ->
                  /\ op' = CreateOp("root", getRootKey, run.dest,
                                    run.scan.rootName, 0, <<>>)
                  /\ pc' = "call" /\ idx' = 0
                  /\ UNCHANGED <<state, disk>>
             [] OTHER ->
                  /\ pc' = "dirs" /\ idx' = 1 /\ op' = NoOp
                  /\ UNCHANGED <<state, disk>>
    /\ UNCHANGED <<fs, remote, clock, run, prev>>
    /\ UNCHANGED unitVars

EnsureDir ==
    /\ pc = "dirs"
    /\ LET dirs == sortedDirs(run.scan)
       IN  IF idx > Len(dirs)
           THEN /\ pc' = "files" /\ idx' = 1
                /\ UNCHANGED <<state, op, run>>
           ELSE LET relativeDir == dirs[idx]
                    step == DirStep(run.dryRun, state, relativeDir)
                IN  CASE step = "keep" ->
                           /\ idx' = idx + 1
                           /\ UNCHANGED <<pc, state, op, run>>
                      [] step = "missing" ->
                           Finish(run, Thrown(
                               <<"Missing parent directory mapping for",
                                 relativeDir>>, <<>>))
                      [] step = "dry" ->
                           /\ state' = [state EXCEPT !.directories =
                                 Put(@, relativeDir, [notionPageId |-> DryRunId])]
                           /\ idx' = idx + 1
                           /\ UNCHANGED <<pc, op, run>>
                      [] OTHER ->
                           /\ op' = CreateOp("dir", relativeDir,
                                  DirPageId(state, getParentKey(relativeDir))[1],
                                  Basename(relativeDir), 0, <<>>)
                           /\ pc' = "call"
                           /\ UNCHANGED <<state, idx, run>>
    /\ UNCHANGED <<fs, disk, remote, clock, prev>>
    /\ UNCHANGED unitVars

(***************************************************************************)
(* importMarkdown: one turn of the loop over scan.mdFiles, up to the       *)
(* remote operation.                                                       *)
(***************************************************************************)
NextFile ==
    /\ pc = "files"
    /\ IF idx > Len(run.scan.mdFiles)
       THEN Finish(run, Returned)
       ELSE LET filePath == run.scan.mdFiles[idx]
                relativePath == relativePathOf(run.scan, filePath)
                fileHash == computeHash(fs[filePath])
                step == FileStep(run.scan, run.dryRun, run.force, state,
                                 filePath, run.dest)
                built == step \notin {"skip", "dry", "missing"}
                seen(page) == [run EXCEPT !.ops = Append(@,
                                 [doc |-> relativePath, kind |-> step,
                                  page |-> page, calls |-> 0,
                                  source |-> filePath,
                                  recorded |-> state.files,
                                  mapped |-> DOMAIN state.directories,
                                  richText |-> IF built
                                      THEN paragraphBlocks[filePath]
                                      ELSE <<>>,
                                  images |-> IF built
                                      THEN builtImages[filePath] ELSE <<>>,
                                  uploads |-> 0])]
                parent == parentPageIdOf(run.scan, state, relativePath,
                              rootPageIdOf(run.scan, state, run.dest))
            IN  CASE step \in {"skip", "dry"} ->
                       /\ run' = seen(DryRunId)
                       /\ idx' = idx + 1
                       /\ UNCHANGED <<pc, state, op>>
                  [] step = "missing" ->
                       Finish(seen(DryRunId), Thrown(
                           <<"Missing parent page for", relativePath>>,
                           relativePath))
                  [] step = "replace" ->
                       /\ run' = seen(state.files[relativePath].notionPageId)
                       /\ op' = Building(ReplaceOp(relativePath,
                                    state.files[relativePath].notionPageId,
                                    buildBlocksForFile(filePath), fileHash),
                                    imagesOf(filePath))
                       /\ pc' = "call"
                       /\ UNCHANGED <<state, idx>>
                  [] OTHER ->
                       /\ run' = seen(DryRunId)
                       /\ op' = Building(CreateOp("file", relativePath,
                                    parent[1], BasenameMd(filePath),
                                    buildBlocksForFile(filePath), fileHash),
                                    imagesOf(filePath))
                       /\ pc' = "call"
                       /\ UNCHANGED <<state, idx>>
    /\ UNCHANGED <<fs, disk, remote, clock, prev>>
    /\ UNCHANGED unitVars

(***************************************************************************)
(* notion/client.ts: createPageWithBlocks and replacePageBlocks, one       *)
(* request per step; the loop of deletions is one step.                    *)
(***************************************************************************)
\* n requests are counted, for the invocation and for the document
CountedN(r, kind, n) ==
    LET r1 == [r EXCEPT !.calls[kind] = @ + n]
    IN  IF op.unit = "file"
        THEN [r1 EXCEPT !.ops[Len(r.ops)].calls = @ + n,
                        !.ops[Len(r.ops)].uploads =
                            IF kind = "upload" THEN @ + n ELSE @]
        ELSE r1

Counted(r, kind) == CountedN(r, kind, 1)

\* createPageWithBlocks or replacePageBlocks has returned
Completed(r, page) ==
    [r EXCEPT !.done = @ \cup {[unit |-> op.unit, key |-> op.key,
                                page |-> page]}]

\* the document in progress, <<>> during ensureDirectoryPages
DocInProgress == IF op.unit = "file" THEN op.key ELSE <<>>

\* what importMarkdown rejects with when a request has failed
Rejection(message, doc) == Thrown(message, doc)

\* appendBlocks(notion, pageId, blocks) from offset 0
AppendPhase(o) == IF 0 < o.blocks THEN "append" ELSE "done"

\* children that takes all the blocks from i on
childrenToTheEnd(o, i) ==
    [from |-> Min(i, o.blocks), to |-> o.blocks]

\* blocks.slice(i, i + MAX_BLOCKS_PER_REQUEST): the children of one request,
\* as the positions [from, to) of the block list
children(o, i) ==
    [from |-> Min(i, o.blocks),
     to |-> Min(i + MAX_BLOCKS_PER_REQUEST, o.blocks)]

\* AfterList that goes on to append while the listed blocks are still there
AfterListKeepsBlocks(o, listed) == AppendPhase(o)

\* replacePageBlocks once listAllBlocks has returned: the loop of
\* blocks.delete when something was listed, then appendBlocks
AfterList(o, listed) == IF listed > 0 THEN "delete" ELSE AppendPhase(o)

\* uploadSmallFile: fileUploads.create
UploadCreate ==
    /\ pc = "call"
    /\ op.phase = "upload"
    /\ op' = [op EXCEPT !.phase = "send"]
    /\ run' = Counted(run, "upload")
    /\ UNCHANGED <<fs, disk, remote, clock, pc, state, idx, prev>>
    /\ UNCHANGED unitVars

\* uploadSmallFile: fileUploads.send
UploadSend ==
    /\ pc = "call"
    /\ op.phase = "send"
    /\ op' = [op EXCEPT !.images = @ - 1,
                        !.phase = IF op.images > 1 THEN "upload"
                                  ELSE FirstPhase(op)]
    /\ run' = Counted(run, "send")
    /\ UNCHANGED <<fs, disk, remote, clock, pc, state, idx, prev>>
    /\ UNCHANGED unitVars

PagesCreate ==
    /\ pc = "call"
    /\ op.phase = "create"
    /\ LET id == PageId(Len(remote) + 1)
           more == MAX_BLOCKS_PER_REQUEST < op.blocks
           c == children(op, 0)
       IN  /\ remote' = Append(remote,
                  [parent |-> op.parent, title |-> op.title,
                   n |-> c.to - c.from,
                   unit |-> op.unit, key |-> op.key])
           /\ op' = [op EXCEPT !.page = id, !.i = MAX_BLOCKS_PER_REQUEST,
                               !.sent = Append(@, c),
                               !.phase = IF more THEN "append" ELSE "done"]
           /\ pc' = IF more THEN "call" ELSE "save"
           /\ run' = IF more THEN Counted(run, "create")
                     ELSE Completed(Counted(run, "create"), id)
    /\ UNCHANGED <<fs, disk, clock, state, idx, prev>>
    /\ UNCHANGED unitVars

ChildrenAppend ==
    /\ pc = "call"
    /\ op.phase = "append"
    /\ LET c == children(op, op.i)
           next == op.i + MAX_BLOCKS_PER_REQUEST
           more == next < op.blocks
       IN  /\ remote' = [remote EXCEPT ![op.page.n].n = @ + (c.to - c.from)]
           /\ op' = [op EXCEPT !.i = next,
                               !.sent = Append(@, c),
                               !.phase = IF more THEN "append" ELSE "done"]
           /\ pc' = IF more THEN "call" ELSE "save"
           /\ run' = IF more THEN Counted(run, "append")
                     ELSE Completed(Counted(run, "append"), op.page)
    /\ UNCHANGED <<fs, disk, clock, state, idx, prev>>
    /\ UNCHANGED unitVars

\* listAllBlocks: one request of the listing
ChildrenList ==
    /\ pc = "call"
    /\ op.phase = "list"
    /\ LET n == remote[op.page.n].n
           listed == op.listed + Min(LIST_PAGE_SIZE, n - op.listed)
           has_more == listed < n
           phase == IF has_more THEN "list" ELSE AfterList(op, listed)
       IN  /\ op' = [op EXCEPT !.listed = listed, !.todo = listed,
                               !.i = 0, !.phase = phase]
           /\ pc' = IF phase = "done" THEN "save" ELSE "call"
           /\ run' = IF phase = "done"
                     THEN Completed(Counted(run, "list"), op.page)
                     ELSE Counted(run, "list")
    /\ UNCHANGED <<fs, disk, remote, clock, state, idx, prev>>
    /\ UNCHANGED unitVars

\* replacePageBlocks: the loop of blocks.delete over the listed blocks, to
\* its end or to the request that is rejected
BlocksDelete ==
    /\ pc = "call"
    /\ op.phase = "delete"
    /\ \E k \in 0..op.todo :
           \/ /\ k = op.todo
              /\ remote' = [remote EXCEPT ![op.page.n].n = @ - k]
              /\ op' = [op EXCEPT !.todo = 0, !.phase = AppendPhase(op)]
              /\ pc' = IF AppendPhase(op) = "done" THEN "save" ELSE "call"
              /\ run' = IF AppendPhase(op) = "done"
                        THEN Completed(CountedN(run, "delete", k), op.page)
                        ELSE CountedN(run, "delete", k)
              /\ UNCHANGED <<state, idx>>
           \/ /\ k < op.todo
              /\ TotalCalls(run) + k < MaxFaultAt
              /\ remote' = [remote EXCEPT ![op.page.n].n = @ - k]
              /\ Finish(CountedN(run, "delete", k + 1),
                        Rejection(<<"Notion API error">>, DocInProgress))
    /\ UNCHANGED <<fs, disk, clock, prev>>
    /\ UNCHANGED unitVars

\* RemoteFault that swallows the rejection and goes on to record the entry
RemoteFaultSwallowed ==
    /\ pc = "call"
    /\ op.phase # "delete"
    /\ TotalCalls(run) < MaxFaultAt
    /\ run' = Counted(run, op.phase)
    /\ pc' = "save"
    /\ UNCHANGED <<fs, disk, remote, clock, state, idx, op, prev>>
    /\ UNCHANGED unitVars

\* the request in progress is rejected by the service
RemoteFault ==
    /\ pc = "call"
    /\ op.phase # "delete"
    /\ TotalCalls(run) < MaxFaultAt
    /\ Finish(Counted(run, op.phase),
              Rejection(<<"Notion API error">>, DocInProgress))
    /\ UNCHANGED <<fs, disk, remote, clock, prev>>
    /\ UNCHANGED unitVars

(***************************************************************************)
(* The entry of the completed unit is recorded and the state file written. *)
(***************************************************************************)
\* Entry that records the hash of no bytes
EntryStaleHash(o, now) ==
    IF o.unit = "file"
    THEN [notionPageId |-> o.page, contentHash |-> <<"sha256", 0>>,
          lastSynced |-> now]
    ELSE [notionPageId |-> o.page]

Entry(o, now) ==
    IF o.unit = "file"
    THEN [notionPageId |-> o.page, contentHash |-> o.hash, lastSynced |-> now]
    ELSE [notionPageId |-> o.page]

\* Recorded that keeps, of the documents, only the entry it writes
RecordedAlone(st, o, now) ==
    IF o.unit = "file"
    THEN [st EXCEPT !.files = (o.key :> Entry(o, now))]
    ELSE [st EXCEPT !.directories = Put(@, o.key, Entry(o, now))]

Recorded(st, o, now) ==
    IF o.unit = "file"
    THEN [st EXCEPT !.files = Put(@, o.key, Entry(o, now))]
    ELSE [st EXCEPT !.directories = Put(@, o.key, Entry(o, now))]

RecordAndSave ==
    /\ pc = "save"
    /\ state' = Recorded(state, op, clock)
    /\ disk' = saveSyncState(state')
    /\ pc' = IF op.unit = "file" THEN "files" ELSE "dirs"
    /\ idx' = idx + 1
    /\ op' = NoOp
    /\ UNCHANGED <<fs, remote, clock, run, prev>>
    /\ UNCHANGED unitVars

(***************************************************************************)
(* The user edits a document between two invocations.                      *)
(***************************************************************************)
EditFile(d, bytes) ==
    /\ pc = "idle"
    /\ clock < MaxRuns
    /\ fs[d] # bytes
    /\ fs' = [fs EXCEPT ![d] = bytes]
    /\ UNCHANGED <<disk, remote, clock, pc, state, idx, op, run, prev>>
    /\ UNCHANGED unitVars

\* the destinations differ in their name only: the first invocation is
\* given the first one, a later invocation either
Next ==
    \/ \E scan \in Scans, d \in Dests, dryRun \in BOOLEAN, force \in BOOLEAN :
           /\ clock = 0 => d = DestId(1)
           /\ Invoke(scan, d, dryRun, force)
    \/ EnsureRoot
    \/ EnsureDir
    \/ NextFile
    \/ UploadCreate
    \/ UploadSend
    \/ PagesCreate
    \/ ChildrenAppend
    \/ ChildrenList
    \/ BlocksDelete
    \/ RemoteFault
    \/ RecordAndSave
    \/ \E d \in Editable, bytes \in Contents : EditFile(d, bytes)

Spec == Init /\ [][Next]_vars

\* importMarkdown called with scans of the caller's making
NextGiven ==
    \/ \E scan \in GivenScans, d \in Dests, dryRun \in BOOLEAN,
          force \in BOOLEAN :
           Invoke(scan, d, dryRun, force)
    \/ EnsureRoot
    \/ EnsureDir
    \/ NextFile
    \/ UploadCreate
    \/ UploadSend
    \/ PagesCreate
    \/ ChildrenAppend
    \/ ChildrenList
    \/ BlocksDelete
    \/ RemoteFault
    \/ RecordAndSave
    \/ \E d \in Editable, bytes \in Contents : EditFile(d, bytes)

SpecGiven == Init /\ [][NextGiven]_vars

\* importMarkdown called once more than MaxRuns times, on a single document
\* or on the directory, for one destination: the clock starts one tick
\* early
InitRepeated ==
    /\ fs = [d \in Docs |-> 1]
    /\ disk = <<>>
    /\ remote = <<>>
    /\ clock = -1
    /\ pc = "idle"
    /\ state = NoState
    /\ idx = 0
    /\ op = NoOp
    /\ run = NoRun
    /\ prev = NoRun
    /\ InlineIdle
    /\ BlocksIdle
    /\ UploadIdle

NextRepeated ==
    \/ \E scan \in {ScanFile, ScanDir}, dryRun \in BOOLEAN,
          force \in BOOLEAN :
           Invoke(scan, DestId(1), dryRun, force)
    \/ EnsureRoot
    \/ EnsureDir
    \/ NextFile
    \/ UploadCreate
    \/ UploadSend
    \/ PagesCreate
    \/ ChildrenAppend
    \/ ChildrenList
    \/ BlocksDelete
    \/ RemoteFault
    \/ RecordAndSave
    \/ \E d \in Editable, bytes \in Contents : EditFile(d, bytes)

SpecRepeated == InitRepeated /\ [][NextRepeated]_vars

TypeOK ==
    /\ pc \in {"idle", "root", "dirs", "files", "call", "save"}
    /\ clock \in 0..MaxRuns
    /\ Len(disk) <= 1

(***************************************************************************)
(* Properties.                                                             *)
(***************************************************************************)
Files(d) == IF d = <<>> THEN EmptyMap ELSE d[1].files

Directories(d) == IF d = <<>> THEN EmptyMap ELSE d[1].directories

\* the invocation and the one before it got the same scan, destination
\* and bytes
SameInputs ==
    /\ prev.result.status # "none"
    /\ run.scan = prev.scan
    /\ run.dest = prev.dest
    /\ run.fs0 = prev.fs0

\* the pages created for the document since the invocation r began
NewPagesFor(r, key) ==
    {p \in (r.pages0 + 1)..Len(remote) :
        remote[p].unit = "file" /\ remote[p].key = key}

TwiceUnforced ==
    /\ SameInputs
    /\ prev.result.status = "ok" /\ ~prev.dryRun /\ ~prev.force
    /\ ~run.dryRun /\ ~run.force

\* C1: when importMarkdown has returned from a non-dry-run without force and
\* is invoked again the same way on the same scan, destination and bytes,
\* the second invocation issues no remote request at all, does not fail, and
\* the file entries of the state file stay what the first invocation left.
C1_Idempotence ==
    TwiceUnforced =>
        /\ TotalCalls(run) = 0
        /\ run.result.status # "error"
        /\ Files(disk) = Files(run.disk0)
        /\ \A j \in 1..Len(run.ops) : run.ops[j].kind = "skip"

C1_Witness ==
    /\ TwiceUnforced
    /\ run.result.status = "ok"
    /\ Len(run.ops) = 2
    /\ DOMAIN Files(disk) = {<<"a.md">>, <<"A", "B", "note.md">>}
    /\ prev.calls.create >= 3

\* the entry of the unit is in the state file, with the page made for it
OnDisk(u) ==
    IF u.unit = "file"
    THEN /\ Has(Files(disk), u.key)
         /\ Files(disk)[u.key].notionPageId = u.page
    ELSE /\ Has(Directories(disk), u.key)
         /\ Directories(disk)[u.key].notionPageId = u.page

\* C2: in a non-dry-run, every unit (root page, directory page, document)
\* whose remote create or update has returned has its entry in the state
\* file, except the unit that has just returned and is about to be written;
\* so when a request of a later unit is issued, and whenever the invocation
\* ends, the entries of all the units completed so far are on disk.
C2_SavedBeforeNextUnit ==
    ~run.dryRun =>
        \A u \in run.done :
            \/ OnDisk(u)
            \/ pc = "save" /\ u.unit = op.unit /\ u.key = op.key

C2_Witness ==
    /\ ~run.dryRun
    /\ pc = "call"
    /\ op.unit = "file"
    /\ \E u \in run.done : u.unit = "file" /\ u.key # op.key /\ OnDisk(u)
    /\ \E u \in run.done : u.unit = "dir"

\* a non-dry-run invocation was aborted while a document was in progress
AbortedInDocument(r) ==
    /\ r.result.status = "error"
    /\ r.result.doc # <<>>
    /\ ~r.dryRun

\* the invocation skips the documents that precede the one the previous
\* invocation failed on, without a request or a new page for any of them,
\* and does not skip the one it failed on
Resumes ==
    LET k == Len(prev.ops)
    IN  /\ \A j \in 1..(k - 1) :
               /\ j <= Len(run.ops) =>
                      run.ops[j].kind = "skip" /\ run.ops[j].calls = 0
               /\ NewPagesFor(run, prev.ops[j].doc) = {}
        /\ k <= Len(run.ops) => run.ops[k].kind # "skip"

\* C3 as claimed: whatever the force option, after an abort in document k
\* the same invocation made again on the same inputs skips the documents
\* before k and resumes with k.
C3_ResumeAnyOptions ==
    (/\ AbortedInDocument(prev) /\ SameInputs
     /\ run.force = prev.force /\ run.dryRun = prev.dryRun) => Resumes

\* C3: if a non-dry-run without force is aborted while document k is in
\* progress, the next invocation without force on the same scan,
\* destination and bytes skips every document before k (no request, no new
\* page) and does not skip document k.
C3_Resume ==
    (AbortedInDocument(prev) /\ ~prev.force /\ ~run.force /\ SameInputs)
        => Resumes

C3_Witness ==
    /\ AbortedInDocument(prev) /\ ~prev.force /\ ~run.force /\ SameInputs
    /\ Len(prev.ops) = 2
    /\ prev.ops[1].kind = "create"
    /\ ~run.dryRun
    /\ run.result.status = "ok"
    /\ run.ops[1].kind = "skip"
    /\ run.ops[2].kind = "create"

\* C4: over any sequence of invocations at most one remote page is ever
\* created for one document path.
C4_OnePagePerDocument ==
    \A p, q \in 1..Len(remote) :
        (remote[p].unit = "file" /\ remote[q].unit = "file"
            /\ remote[p].key = remote[q].key) => p = q

\* the state file is bound to another destination than the one requested
Mismatch ==
    /\ run.result.status # "none"
    /\ run.disk0 # <<>>
    /\ run.disk0[1].destinationPageId # run.dest

MismatchError ==
    /\ run.result.status = "error"
    /\ run.result.message =
           <<"Destination page ID mismatch",
             run.disk0[1].destinationPageId, run.dest>>

\* C5 as claimed: every invocation with a destination other than the one
\* the state file is bound to fails with the mismatch error, without a
\* remote request and without a write of the state file.
C5_MismatchAlwaysFails ==
    Mismatch => (MismatchError /\ TotalCalls(run) = 0 /\ disk = run.disk0)

EmptyDirectoryImport(scan) == scan.isDirectory /\ Len(scan.mdFiles) = 0

\* C5: an invocation with a destination other than the one the state file
\* is bound to issues no remote request and leaves the state file as it
\* was; it fails with the mismatch error unless the scan is a directory
\* import without documents, in which case it returns without error.
C5_Mismatch ==
    Mismatch =>
        /\ TotalCalls(run) = 0
        /\ disk = run.disk0
        /\ pc = "idle"
        /\ IF EmptyDirectoryImport(run.scan)
           THEN run.result.status = "ok"
           ELSE MismatchError

C5_Witness ==
    /\ Mismatch
    /\ MismatchError
    /\ run.scan = ScanDir
    /\ ~run.dryRun
    /\ DOMAIN Files(disk) # {}

\* the document had an entry when the invocation began, whose hash is not
\* the hash of its bytes
Changed(r, filePath) ==
    LET key == relativePathOf(r.scan, filePath)
    IN  /\ Has(Files(r.disk0), key)
        /\ Files(r.disk0)[key].contentHash # computeHash(r.fs0[filePath])

\* C6: when a non-dry-run invocation without force returns, every scanned
\* document that had an entry with another hash than that of its bytes has
\* been updated exactly once, on the page of its entry: no page was created
\* for it, the page holds the new blocks, and the entry keeps the page id
\* and carries the new hash.
C6_ChangeDetection ==
    (run.result.status = "ok" /\ ~run.dryRun /\ ~run.force) =>
        \A j \in 1..Len(run.scan.mdFiles) :
            LET filePath == run.scan.mdFiles[j]
                key == relativePathOf(run.scan, filePath)
                was == Files(run.disk0)[key]
            IN  Changed(run, filePath) =>
                    /\ Len(run.ops) = Len(run.scan.mdFiles)
                    /\ run.ops[j].doc = key
                    /\ run.ops[j].kind = "replace"
                    /\ run.ops[j].page = was.notionPageId
                    /\ NewPagesFor(run, key) = {}
                    /\ remote[was.notionPageId.n].n = run.fs0[filePath]
                    /\ Files(disk)[key].notionPageId = was.notionPageId
                    /\ Files(disk)[key].contentHash
                           = computeHash(run.fs0[filePath])

C6_Witness ==
    /\ run.result.status = "ok" /\ ~run.dryRun /\ ~run.force
    /\ run.scan = ScanDir
    /\ Changed(run, DocA)
    /\ run.ops[2].kind = "replace"
    /\ run.ops[1].kind = "skip"
    /\ run.calls.delete > 0

\* C7: with force no document is skipped; in a non-dry-run every document
\* reached that had a recorded page id is updated on that page id, also
\* when its recorded hash is the hash of its bytes, and when the invocation
\* returns every scanned document has been reached.
C7_Force ==
    run.force =>
        /\ \A j \in 1..Len(run.ops) :
               /\ run.ops[j].kind # "skip"
               /\ (~run.dryRun /\ Has(Files(run.disk0), run.ops[j].doc)) =>
                      /\ run.ops[j].kind = "replace"
                      /\ run.ops[j].page =
                             Files(run.disk0)[run.ops[j].doc].notionPageId
                      /\ (pc = "files" \/ j < Len(run.ops)
                             \/ run.result.status = "ok")
                             => run.ops[j].calls > 0
        /\ run.result.status = "ok" =>
               Len(run.ops) = Len(run.scan.mdFiles)

C7_Witness ==
    /\ run.force /\ ~run.dryRun
    /\ run.result.status = "ok"
    /\ Len(run.ops) = 2
    /\ \A j \in 1..2 :
           /\ run.ops[j].kind = "replace"
           /\ Files(run.disk0)[run.ops[j].doc].contentHash
                  = computeHash(run.fs0[run.scan.mdFiles[j]])

\* C8: a failure raised while a document is in progress is surfaced by
\* importMarkdown as "Error processing <relativePath>: <underlying message>".
C8_ErrorWrapped ==
    (run.result.status = "error" /\ run.result.doc # <<>>) =>
        /\ Len(run.result.message) = 3
        /\ run.result.message[1] = "Error processing"
        /\ run.result.message[2] = run.result.doc

\* the placeholder id is nowhere in the state file
NoPlaceholderOnDisk ==
    /\ \A k \in DOMAIN Files(disk) : Files(disk)[k].notionPageId # DryRunId
    /\ \A k \in DOMAIN Directories(disk) :
           Directories(disk)[k].notionPageId # DryRunId

\* C9: a dry-run invocation issues no remote request (page create, list,
\* delete, append, upload), whatever the scan and the prior state, and the
\* placeholder id "dry-run" is never in the state file.
C9_DryRunNoRemote ==
    /\ run.dryRun => (TotalCalls(run) = 0 /\ Len(remote) = run.pages0)
    /\ NoPlaceholderOnDisk

C9_Witness ==
    /\ run.dryRun
    /\ run.result.status = "ok"
    /\ run.scan = ScanDir
    /\ prev.result.status = "error"
    /\ \E j \in 1..Len(run.ops) : run.ops[j].kind = "dry"
    /\ Directories(disk) # EmptyMap

\* C10: a dry-run invocation never writes the state file: the state file
\* is what it was when the invocation began, or stays absent.
C10_DryRunKeepsState ==
    run.dryRun => disk = run.disk0

\* the directory has an entry in the state file whose page was created under
\* the page recorded for its parent directory
MirroredOnDisk(relativeDir) ==
    /\ Has(Directories(disk), relativeDir)
    /\ Has(Directories(disk), getParentKey(relativeDir))
    /\ LET id == Directories(disk)[relativeDir].notionPageId
       IN  /\ id.kind = "page"
           /\ remote[id.n].parent =
                  Directories(disk)[getParentKey(relativeDir)].notionPageId

\* C11: in a directory import that contains the nested document
\* A/B/note.md no parent lookup of ensureDirectoryPages fails, and whenever
\* the entry of A/B/note.md is in the state file the entries of ".", "A" and
\* "A/B" are there too, each directory page created under the page recorded
\* for its parent, "A" before "A/B".
C11_DirectoryMirroring ==
    (run.scan.isDirectory /\ Len(run.scan.mdFiles) > 0) =>
        /\ run.result.status = "error" =>
               run.result.message[1] # "Missing parent directory mapping for"
        /\ Has(Files(disk), <<"A", "B", "note.md">>) =>
               /\ Has(Directories(disk), getRootKey)
               /\ MirroredOnDisk(<<"A">>)
               /\ MirroredOnDisk(<<"A", "B">>)
               /\ Directories(disk)[<<"A">>].notionPageId.n
                      < Directories(disk)[<<"A", "B">>].notionPageId.n

\* ensureDirectoryPages has returned and the loop over the documents runs
Materialized ==
    \/ pc = "files"
    \/ pc \in {"call", "save"} /\ op.unit = "file"

\* C12: in a directory import with createRootPage = false, once
\* ensureDirectoryPages has returned, state.directories["."] holds the
\* destination page id of the invocation, no page has been created for the
\* root, and every page created for a top-level document is a child of the
\* destination.
C12_RootIsDestination ==
    (run.scan.isDirectory /\ ~run.scan.createRootPage /\ Materialized) =>
        /\ Has(state.directories, getRootKey)
        /\ state.directories[getRootKey].notionPageId = run.dest
        /\ \A p \in (run.pages0 + 1)..Len(remote) :
               /\ remote[p].unit # "root"
               /\ (remote[p].unit = "file" /\ Len(remote[p].key) = 1) =>
                      remote[p].parent = run.dest

\* the number of blocks the requests of the operation have sent so far
Sent(o) == IF o.sent = <<>> THEN 0 ELSE o.sent[Len(o.sent)].to

\* C13: a document that is processed and has a recorded page id is updated
\* on that page: no page is created for it; every block of the page has been
\* listed when the deletions begin; the first append is issued only when no
\* listed block is left, so the page then holds only blocks of the new
\* list; and the entry written afterwards carries the same page id.
C13_UpdateInPlace ==
    /\ (pc \in {"call", "save"} /\ op.fn = "replace") =>
           /\ Has(Files(run.disk0), op.key)
           /\ op.page = Files(run.disk0)[op.key].notionPageId
           /\ NewPagesFor(run, op.key) = {}
           /\ op.phase \in {"upload", "send", "list"} => op.sent = <<>>
           /\ op.phase = "delete" =>
                  op.sent = <<>> /\ op.todo = remote[op.page.n].n
           /\ op.phase \in {"append", "done"} =>
                  op.todo = 0 /\ remote[op.page.n].n = Sent(op)
           /\ pc = "save" => remote[op.page.n].n = op.blocks
    /\ \A j \in 1..Len(run.ops) :
           (run.ops[j].kind = "replace" /\ (j < Len(run.ops) \/ pc \in {"files", "idle"})
                /\ run.result.status # "error") =>
               Files(disk)[run.ops[j].doc].notionPageId = run.ops[j].page

C13_Witness ==
    /\ pc = "call"
    /\ op.fn = "replace"
    /\ op.phase = "append"
    /\ op.listed = BigDoc
    /\ op.i = MAX_BLOCKS_PER_REQUEST
    /\ run.calls.delete = BigDoc

\* the document a link of Paragraph points to
LinkedDocument(target) ==
    IF target = <<"n", "o", "t", "e">> THEN DocB ELSE DocA

\* the document of the j-th entry of r.ops was built and sent
Built(r, j) == r.ops[j].kind \in {"create", "replace"}

\* C14: a link to document T in a document that is built is sent as a
\* mention of the page recorded for T when the state holds an entry for T
\* at that moment (from an earlier run, or from earlier in this run), and
\* otherwise as bold, blue text that carries the display string.
C14_WikiLinkResolution ==
    \A j \in 1..Len(run.ops) :
        Built(run, j) =>
            LET o == run.ops[j]
                segs == parseInline(Paragraph(o.source))
            IN  /\ Len(o.richText) = Len(segs)
                /\ \A k \in DOMAIN segs :
                       segs[k].type = "wiki_link" =>
                           LET T == relativePathOf(run.scan,
                                        LinkedDocument(segs[k].target))
                           IN  IF Has(o.recorded, T)
                               THEN o.richText[k] =
                                        [type |-> "mention",
                                         page |-> o.recorded[T].notionPageId]
                               ELSE o.richText[k] =
                                        [type |-> "text",
                                         content |-> <<segs[k].display>>,
                                         link |-> <<>>,
                                         annotations |->
                                             <<[bold |-> TRUE,
                                                color |-> "blue"]>>]

\* the j-th document of r.ops has been sent and recorded
Settled(j) ==
    \/ j < Len(run.ops)
    \/ pc = "files"
    \/ pc = "idle" /\ run.result.status = "ok"

\* the files the image targets of each document resolve to
ResolvedTargets ==
    [filePath \in Docs |->
        [k \in DOMAIN ImageTargets(filePath) |->
            [dir |-> Dirname(filePath),
             name |-> decodeURIComponent(ImageTargets(filePath)[k]).value]]]

\* C15: for an image line whose file does not exist the document is sent
\* with a paragraph whose text holds "Missing image: " followed by the
\* resolved path in the place of the image; uploadFile is called for the
\* images that exist only; the only failure of the document is a request
\* the service rejects, and without one its entry is written to the state.
C15_MissingImagePlaceholder ==
    \A j \in 1..Len(run.ops) :
        Built(run, j) =>
            LET o == run.ops[j]
                targets == ImageTargets(o.source)
                resolved == ResolvedTargets[o.source]
                missing == {k \in DOMAIN targets :
                               resolved[k] \notin ExistingImages}
            IN  /\ Len(o.images) = Len(targets)
                /\ \A k \in missing :
                       /\ o.images[k].type = "paragraph"
                       /\ o.images[k].content[2] = "Missing image: "
                       /\ o.images[k].content[3] = resolved[k]
                /\ o.uploads <= Len(targets) - Cardinality(missing)
                /\ (run.result.status = "error" /\ j = Len(run.ops)) =>
                       run.result.message = <<"Notion API error">>
                /\ Settled(j) =>
                       /\ Has(Files(disk), o.doc)
                       /\ Files(disk)[o.doc].contentHash
                              = computeHash(run.fs0[o.source])

C15_Witness ==
    /\ pc = "idle"
    /\ run.result = Returned
    /\ \E j \in 1..Len(run.ops) :
           /\ run.ops[j].source \in WithMissingImage
           /\ run.ops[j].kind = "create"
           /\ Len(run.ops[j].images) = 1
           /\ run.ops[j].images[1].type = "paragraph"
           /\ run.ops[j].uploads = 0
           /\ Has(Files(disk), run.ops[j].doc)

\* the key of the directory that holds the document
ParentKey(doc) ==
    IF Dirname(doc) = <<".">> THEN getRootKey ELSE Dirname(doc)

\* the j-th document of the invocation needed processing and the directory
\* that holds it had no page id on record
MissingParent(j) ==
    /\ run.scan.isDirectory
    /\ run.ops[j].kind # "skip"
    /\ ParentKey(run.ops[j].doc) \notin run.ops[j].mapped

\* the entry of the document in the state file is the one the invocation
\* found
EntryUntouched(key) ==
    /\ Has(Files(disk), key) <=> Has(Files(run.disk0), key)
    /\ Has(Files(disk), key) => Files(disk)[key] = Files(run.disk0)[key]

\* C24: in a directory import, when a document needs processing and the
\* directory that holds it has no page id on record, importMarkdown ends
\* with the error "Missing parent page for <relativePath>"; no request is
\* issued for the document, no page is made for it or for a later document
\* of the scan, and the entries of these documents in the state file are
\* left as they were.
C24_MissingParentFatal ==
    \A j \in 1..Len(run.ops) :
        MissingParent(j) =>
            /\ j = Len(run.ops)
            /\ pc = "idle"
            /\ run.result = Thrown(<<"Missing parent page for",
                                     run.ops[j].doc>>, run.ops[j].doc)
            /\ run.ops[j].calls = 0
            /\ \A k \in j..Len(run.scan.mdFiles) :
                   LET key == relativePathOf(run.scan, run.scan.mdFiles[k])
                   IN  /\ NewPagesFor(run, key) = {}
                       /\ EntryUntouched(key)

\* the second document has no parent page, after the first one was created
C24_Witness ==
    /\ Len(run.ops) = 2
    /\ MissingParent(2)
    /\ run.ops[1].kind = "create"
    /\ run.ops[1].calls > 0
    /\ run.result.status = "error"

\* the directories of the scan, relative to its rootDir, the root left out
ListedDirs(scan) ==
    {toRelativePath(scan.rootDir, scan.directories[k]) :
        k \in DOMAIN scan.directories} \ {<<>>}

\* every document's directory and every listed directory's parent is the
\* root or is listed
ClosedUnderParents(scan) ==
    /\ \A k \in DOMAIN scan.mdFiles :
           LET dir == Dirname(relativePathOf(scan, scan.mdFiles[k]))
           IN  dir = <<".">> \/ dir \in ListedDirs(scan)
    /\ \A d \in ListedDirs(scan) :
           getParentKey(d) = getRootKey \/ getParentKey(d) \in ListedDirs(scan)

\* C26: the result of scanInput or scanMultipleInputs for a directory import
\* is closed under parents: each document's directory relative to rootDir is
\* the root or a member of directories, and each member of directories has
\* its parent the root or in directories; so importMarkdown never ends with
\* a missing-parent error on the result of the scanner.
C26_ScanClosedUnderParents ==
    run.scan.isDirectory =>
        /\ ClosedUnderParents(run.scan)
        /\ run.result.status = "error" =>
               run.result.message[1] \notin
                   {"Missing parent directory mapping for",
                    "Missing parent page for"}

\* the invocation ended with an error while a document was in progress
FailedDocument(r) == r.result.status = "error" /\ r.result.doc # <<>>

\* the two maps have the same entry, or both none, under the key
SameEntry(a, b, key) ==
    /\ Has(a, key) <=> Has(b, key)
    /\ Has(a, key) => a[key] = b[key]

\* the entry of the document, in memory or in the state file, is not the
\* one the invocation found
EntryWritten(key) ==
    \/ ~SameEntry(Files(disk), Files(run.disk0), key)
    \/ pc # "idle" /\ ~SameEntry(state.files, Files(run.disk0), key)

\* createPageWithBlocks or replacePageBlocks has returned for the document
RemoteReturned(key) == \E u \in run.done : u.unit = "file" /\ u.key = key

\* the entry of a document is written only after its create or replace has
\* returned, and the entry of the document an invocation failed on is the
\* one the invocation found
FailedEntryUntouched ==
    /\ \A f \in DOMAIN run.scan.mdFiles :
           LET key == relativePathOf(run.scan, run.scan.mdFiles[f])
           IN  EntryWritten(key) => RemoteReturned(key)
    /\ FailedDocument(run) =>
           /\ ~RemoteReturned(run.result.doc)
           /\ EntryUntouched(run.result.doc)

\* the invocation does not skip the document the one before it failed on
AttemptedAgain ==
    \A j \in DOMAIN run.ops :
        run.ops[j].doc = prev.result.doc => run.ops[j].kind # "skip"

\* C27 as claimed: the entry of a failed document is left as it was, so the
\* next invocation on the same inputs attempts the document again, whatever
\* its options.
C27_FailedDocumentRetried ==
    /\ FailedEntryUntouched
    /\ (FailedDocument(prev) /\ SameInputs) => AttemptedAgain

\* C27: the entry of a document, in memory and in the state file, is
\* written only after its remote create or replace has returned; when an
\* invocation fails on a document the entry of that document is left as the
\* invocation found it, and the next invocation on the same scan,
\* destination and bytes does not skip the document if it is forced or the
\* failed one was not.
C27_FailedEntryUntouched ==
    /\ FailedEntryUntouched
    /\ (FailedDocument(prev) /\ SameInputs /\ (run.force \/ ~prev.force))
           => AttemptedAgain

\* an update failed after its first request, and the next invocation
\* updates the document again
C27_Witness ==
    /\ FailedDocument(prev) /\ SameInputs /\ ~prev.force /\ ~run.force
    /\ prev.ops[Len(prev.ops)].calls > 1
    /\ Len(run.ops) = Len(prev.ops)
    /\ run.ops[Len(run.ops)].doc = prev.result.doc
    /\ run.ops[Len(run.ops)].kind = "create"
    /\ FailedDocument(run)
    /\ run.ops[Len(run.ops)].calls > 1

\* C28: once the state file holds a page id for a document or a directory,
\* no step of any later invocation removes or changes that id; of an entry
\* on record only contentHash and lastSynced are ever rewritten.
C28_PageIdsStable ==
    [][/\ \A key \in DOMAIN Files(disk) :
              /\ Has(Files(disk'), key)
              /\ Files(disk')[key].notionPageId
                     = Files(disk)[key].notionPageId
       /\ \A key \in DOMAIN Directories(disk) :
              /\ Has(Directories(disk'), key)
              /\ Directories(disk')[key].notionPageId
                     = Directories(disk)[key].notionPageId]_vars

\* a later invocation has updated a document on record: the entry has
\* another hash and time, and the page id it had
C28_Witness ==
    /\ prev.result.status = "ok"
    /\ ~run.dryRun
    /\ run.scan.isDirectory
    /\ Has(Directories(run.disk0), getRootKey)
    /\ \E key \in DOMAIN Files(run.disk0) :
           /\ Files(disk)[key].contentHash # Files(run.disk0)[key].contentHash
           /\ Files(disk)[key].lastSynced # Files(run.disk0)[key].lastSynced
           /\ Files(disk)[key].notionPageId
                  = Files(run.disk0)[key].notionPageId

\* C29: no step of importMarkdown removes a key from the files or the
\* directories of the state file or changes its destinationPageId, also
\* when a document or directory on record is not in the scan: the key sets
\* of the state file never shrink.
C29_StateOnlyGrows ==
    [][disk # <<>> =>
          /\ disk' # <<>>
          /\ disk'[1].destinationPageId = disk[1].destinationPageId
          /\ DOMAIN Files(disk) \subseteq DOMAIN Files(disk')
          /\ DOMAIN Directories(disk) \subseteq DOMAIN Directories(disk')]_vars

\* an invocation on the single document has written the state file, which
\* still holds the document and the directories of an earlier directory
\* import that its scan does not have
C29_Witness ==
    /\ run.scan = ScanFile
    /\ disk # run.disk0
    /\ Has(Files(disk), toRelativePath(<<"doc">>, DocB))
    /\ Has(Directories(disk), <<"A", "B">>)
    /\ Has(Directories(disk), getRootKey)

(***************************************************************************)
(* parseInline on its own: the argument is drawn from the texts made of at *)
(* most MaxPieces pieces, one turn of the while loop is one step.          *)
(***************************************************************************)
InlinePieces ==
    { <<"a">>, <<"$">>, <<"[">>, <<"]">>, <<"*">>, <<"_">>,
      <<"$", "a", "$">>,
      <<"[", "[", "a", "]", "]">>,
      <<"[", "[", "a", "|", "b", "]", "]">>,
      <<"[", "a", "]", "(", "b", ")">>,
      <<"[", "a", "]", "(", "b", ".", "m", "d", ")">>,
      <<"[", "a", "]", "(", "H", "t", "t", "p", ":", "/", "/", "x", ")">>,
      <<"[", "a", "]", "(", "m", ":", "x", ")">>,
      <<"=", "=", "a", "=", "=">>,
      <<"*", "*", "*", "a", "*", "*", "*">>,
      <<"_", "_", "_", "a", "_", "_", "_">>,
      <<"*", "*", "a", "*", "*">>,
      <<"_", "_", "a", "_", "_">>,
      <<Backquote, "a", Backquote>>,
      <<"~", "~", "a", "~", "~">>,
      <<"*", "a", "*">>,
      <<"_", "a", "_">> }

RECURSIVE Pieced(_)
\* the texts made of at most n pieces
Pieced(n) ==
    IF n = 0 THEN {<<>>}
    ELSE LET shorter == Pieced(n - 1)
         IN  shorter \cup {a \o piece : a \in shorter, piece \in InlinePieces}

InitInline ==
    /\ text \in Pieced(MaxPieces)
    /\ remaining = text
    /\ segments = <<>>
    /\ sources = <<>>
    /\ earliestMatch = NoEarliest
    /\ fs = [d \in Docs |-> 1]
    /\ EngineIdle
    /\ BlocksIdle
    /\ UploadIdle

\* one turn of the while loop of parseInline
ParseInlineTurn ==
    /\ Len(remaining) > 0
    /\ \E turn \in {parseInlineStep(remaining)} :
           /\ segments' = segments \o turn.segments
           /\ sources' = sources \o turn.sources
           /\ remaining' = turn.rest
           /\ earliestMatch' = turn.earliestMatch
    /\ UNCHANGED <<text, engineVars, blockVars, uploadVars>>

NextInline == ParseInlineTurn

SpecInline == InitInline /\ [][NextInline]_vars

RECURSIVE Joined(_)
\* the texts the segments stand for, one after the other
Joined(srcs) ==
    IF srcs = <<>> THEN <<>> ELSE Head(srcs).src \o Joined(Tail(srcs))

\* C18: at every turn of parseInline the texts the segments stand for (a
\* plain segment its own text, a recognised one the whole text its pattern
\* matched), put one after the other and followed by what remains, are the
\* argument; so when nothing remains the segments cover the argument without
\* gap or overlap.  No segment stands for the empty text, and the empty
\* argument gives no segment.
C18_InlineCoverage ==
    /\ Joined(sources) \o remaining = text
    /\ Len(sources) = Len(segments)
    /\ \A k \in 1..Len(sources) :
           /\ sources[k].src # <<>>
           /\ sources[k].plain =>
                  segments[k] = [type |-> "text", text |-> sources[k].src]
    /\ text = <<>> => segments = <<>>
    /\ (text # <<>> /\ remaining = <<>>) => segments # <<>>

C18_Witness ==
    /\ remaining = <<>>
    /\ Len(segments) = 2
    /\ ~sources[1].plain /\ sources[2].plain
    /\ segments[1].type = "wiki_link"
    /\ segments[1].display # segments[1].target

\* the span the last turn pushed for the markdown link it chose
LinkSpan == segments[Len(segments)]

\* C21: for a markdown link [label](url) the span is a text span that links
\* to url if and only if url starts with http:// or https:// (in either
\* case of the letters); every other url, protocol-relative, path-relative,
\* a bare .md reference or mailto:-style, gives a wiki-link span with
\* target url and display label.
C21_LinkClassification ==
    (/\ earliestMatch.found
     /\ patterns[earliestMatch.handler].name = "markdown link") =>
        LET label == Group(earliestMatch.match, 1, <<>>)
            url == Group(earliestMatch.match, 2, <<>>)
        IN  IF IsHttpUrl(url)
            THEN LinkSpan = [type |-> "text", text |-> label, link |-> url]
            ELSE LinkSpan = [type |-> "wiki_link", target |-> url,
                             display |-> label]

\* the match of every pattern in s
Matches(s) == [k \in 1..Len(patterns) |-> match(s, patterns[k])]

\* the list of priorities of the inline patterns
PriorityList ==
    <<"equation", "wiki-link", "markdown link", "highlight", "bold-italic",
      "bold", "inline code", "strikethrough", "italic">>

Priority(k) ==
    CHOOSE n \in 1..Len(PriorityList) : PriorityList[n] = patterns[k].name

\* the text the last turn of parseInline looked at
Scanned ==
    IF earliestMatch.found THEN earliestMatch.match.input
    ELSE IF sources = <<>> THEN <<>>
    ELSE sources[Len(sources)].src

\* C20: the match parseInline chooses in a turn starts at the smallest
\* offset at which any pattern matches what remained, and among the
\* patterns that match at that offset it is the one that comes first in the
\* priority list; the turn chooses no match only when no pattern matches.
C20_MatchSelection ==
    LET found == Matches(Scanned)
        matching == {k \in DOMAIN found : found[k].found}
        here == {k \in matching : found[k].index = earliestMatch.index}
    IN  IF earliestMatch.found
        THEN /\ earliestMatch.handler \in here
             /\ \A k \in matching : found[k].index >= earliestMatch.index
             /\ \A k \in here :
                    Priority(k) >= Priority(earliestMatch.handler)
             /\ \A k \in 1..Len(patterns), j \in 1..Len(patterns) :
                    k <= j => Priority(k) <= Priority(j)
        ELSE matching = {}

C20_Witness ==
    /\ earliestMatch.found
    /\ earliestMatch.index > 0
    /\ LET found == Matches(Scanned)
       IN  Cardinality({found[k].index :
                           k \in {j \in DOMAIN found : found[j].found}}) >= 3
    /\ earliestMatch.handler > 1

(***************************************************************************)
(* createPageWithBlocks and appendBlocks on their own: the block list has  *)
(* any length up to MaxBlocks, one request is one step.                    *)
(***************************************************************************)
\* a call of appendBlocks(notion, blockId, blocks)
AppendOp(page, blocks) ==
    LET o == [NoOp EXCEPT !.fn = "append", !.unit = "client", !.page = page,
                          !.blocks = blocks]
    IN  [o EXCEPT !.phase = AppendPhase(o)]

\* the page appendBlocks is given
EmptyPage ==
    [parent |-> DestId(1), title |-> "page", n |-> 0, unit |-> "client",
     key |-> <<>>]

InitClient ==
    /\ \E n \in 0..MaxBlocks :
           \/ /\ op = CreateOp("client", <<>>, DestId(1), "page", n, <<>>)
              /\ remote = <<>>
           \/ /\ op = AppendOp(PageId(1), n)
              /\ remote = <<EmptyPage>>
    /\ pc = "call"
    /\ run = [NoRun EXCEPT !.result = Running]
    /\ fs = [d \in Docs |-> 1]
    /\ disk = <<>>
    /\ clock = 0
    /\ state = NoState
    /\ idx = 0
    /\ prev = NoRun
    /\ InlineIdle
    /\ BlocksIdle
    /\ UploadIdle

NextClient ==
    \/ PagesCreate
    \/ ChildrenAppend

SpecClient == InitClient /\ [][NextClient]_vars

\* the least number of requests of at most d children that carry n children
Ceil(n, d) == (n + d - 1) \div d

\* C17: a request of createPageWithBlocks or of appendBlocks carries at most
\* 100 children; each request starts where the one before it ended, the
\* first at the head of the block list, and there is one request per step;
\* when the call is over the requests together carry the whole block list,
\* in ceil(n/100) requests for appendBlocks and in one create followed by
\* ceil(max(n-100,0)/100) appends for createPageWithBlocks.
C17_Batching ==
    LET n == op.blocks
        requests == op.sent
    IN  /\ \A k \in 1..Len(requests) :
               /\ requests[k].from <= requests[k].to
               /\ requests[k].to - requests[k].from <= 100
               /\ requests[k].from = IF k = 1 THEN 0 ELSE requests[k - 1].to
        /\ run.calls.create + run.calls.append = Len(requests)
        /\ run.calls.create = IF op.fn = "create" /\ requests # <<>> THEN 1 ELSE 0
        /\ op.phase = "done" =>
               /\ Sent(op) = n
               /\ remote[op.page.n].n = n
               /\ op.fn = "append" => run.calls.append = Ceil(n, 100)
               /\ op.fn = "create" =>
                      run.calls.append
                          = Ceil(IF n > 100 THEN n - 100 ELSE 0, 100)

C17_Witness ==
    /\ op.fn = "create"
    /\ op.phase = "done"
    /\ op.blocks = 2 * MAX_BLOCKS_PER_REQUEST + 1
    /\ Len(op.sent) = 3
    /\ op.sent[3] = [from |-> 200, to |-> 201]

(***************************************************************************)
(* uploadLargeFile on its own.  The sends of the parts are dispatched      *)
(* together and settle one by one, in any order; Promise.all rejects as    *)
(* soon as one send is rejected, while the other sends are still in        *)
(* flight, and is fulfilled when all of them are acknowledged.             *)
(***************************************************************************)
\* splitIntoChunks that leaves out a last chunk shorter than the others
splitIntoWholeChunks(size, chunkSize) ==
    [k \in 1..(size \div chunkSize) |-> chunkSize]

\* splitIntoChunks(data, chunkSize): the sizes of the chunks
splitIntoChunks(size, chunkSize) ==
    [k \in 1..((size + chunkSize - 1) \div chunkSize) |->
        Min(chunkSize, size - (k - 1) * chunkSize)]

\* uploadFile takes files of more than TWENTY_MB to uploadLargeFile
InitUpload ==
    /\ fileSize \in (TWENTY_MB + 1)..MaxFileMB
    /\ uploadPc = "create"
    /\ created = <<>>
    /\ parts = <<>>
    /\ completes = 0
    /\ uploadResult = "none"
    /\ fs = [d \in Docs |-> 1]
    /\ EngineIdle
    /\ InlineIdle
    /\ BlocksIdle

\* fileUploads.create({mode: "multi_part"}) answers, and every part is sent
FileUploadsCreate ==
    /\ uploadPc = "create"
    /\ created' = Append(created,
           [mode |-> "multi_part",
            number_of_parts |-> <<Len(splitIntoChunks(fileSize, TEN_MB))>>])
    /\ \/ /\ parts' = [k \in DOMAIN splitIntoChunks(fileSize, TEN_MB) |->
                         [size |-> splitIntoChunks(fileSize, TEN_MB)[k],
                          part_number |-> <<k>>,
                          status |-> "in flight"]]
          /\ uploadPc' = "all"
          /\ UNCHANGED uploadResult
       \/ /\ uploadPc' = "done"
          /\ uploadResult' = "rejected"
          /\ UNCHANGED parts
    /\ UNCHANGED <<fileSize, completes, engineVars, inlineVars, blockVars>>

\* the service answers the send of part k
SendSettles(k, status) ==
    /\ k \in DOMAIN parts
    /\ parts[k].status = "in flight"
    /\ parts' = [parts EXCEPT ![k].status = status]
    /\ UNCHANGED <<fileSize, uploadPc, created, completes, uploadResult,
                   engineVars, inlineVars, blockVars>>

\* Fulfilled that one acknowledged send is enough for
FulfilledByAny(ps) == \E k \in DOMAIN ps : ps[k].status = "acknowledged"

\* Promise.all is fulfilled when every promise is
Fulfilled(ps) == \A k \in DOMAIN ps : ps[k].status = "acknowledged"

\* Promise.all is rejected when one promise is
Rejected(ps) == \E k \in DOMAIN ps : ps[k].status = "rejected"

\* await Promise.all(...) returns or throws
PromiseAll ==
    /\ uploadPc = "all"
    /\ \/ /\ Rejected(parts)
          /\ uploadPc' = "done"
          /\ uploadResult' = "rejected"
       \/ /\ ~Rejected(parts)
          /\ Fulfilled(parts)
          /\ uploadPc' = "complete"
          /\ UNCHANGED uploadResult
    /\ UNCHANGED <<fileSize, created, parts, completes, engineVars,
                   inlineVars, blockVars>>

\* fileUploads.complete is requested, and answers
FileUploadsComplete ==
    /\ uploadPc = "complete"
    /\ completes' = completes + 1
    /\ uploadPc' = "done"
    /\ uploadResult' \in {"returned", "rejected"}
    /\ UNCHANGED <<fileSize, created, parts, engineVars, inlineVars,
                   blockVars>>

NextUpload ==
    \/ FileUploadsCreate
    \/ \E k \in 1..Len(parts), status \in {"acknowledged", "rejected"} :
           SendSettles(k, status)
    \/ PromiseAll
    \/ FileUploadsComplete

SpecUpload == InitUpload /\ [][NextUpload]_vars

(***************************************************************************)
(* upload.ts: uploadFile, for a file of any size up to MaxFileMB.          *)
(***************************************************************************)
InitUploadFile ==
    /\ fileSize \in 0..MaxFileMB
    /\ uploadPc = "uploadFile"
    /\ created = <<>>
    /\ parts = <<>>
    /\ completes = 0
    /\ uploadResult = "none"
    /\ fs = [d \in Docs |-> 1]
    /\ EngineIdle
    /\ InlineIdle
    /\ BlocksIdle

\* if (fileSize <= TWENTY_MB) return uploadSmallFile(...)
UploadFile ==
    /\ uploadPc = "uploadFile"
    /\ uploadPc' = IF fileSize <= TWENTY_MB THEN "small create" ELSE "create"
    /\ UNCHANGED <<fileSize, created, parts, completes, uploadResult,
                   engineVars, inlineVars, blockVars>>

\* uploadSmallFile: fileUploads.create({mode: "single_part"}) answers, and
\* the whole file is sent
SmallFileCreate ==
    /\ uploadPc = "small create"
    /\ created' = Append(created,
           [mode |-> "single_part", number_of_parts |-> <<>>])
    /\ \/ /\ parts' = <<[size |-> fileSize, part_number |-> <<>>,
                          status |-> "in flight"]>>
          /\ uploadPc' = "small send"
          /\ UNCHANGED uploadResult
       \/ /\ uploadPc' = "done"
          /\ uploadResult' = "rejected"
          /\ UNCHANGED parts
    /\ UNCHANGED <<fileSize, completes, engineVars, inlineVars, blockVars>>

\* uploadSmallFile: await fileUploads.send(...) returns or throws
SmallFileSent ==
    /\ uploadPc = "small send"
    /\ parts[1].status # "in flight"
    /\ uploadPc' = "done"
    /\ uploadResult' = IF parts[1].status = "acknowledged"
                       THEN "returned" ELSE "rejected"
    /\ UNCHANGED <<fileSize, created, parts, completes, engineVars,
                   inlineVars, blockVars>>

NextUploadFile ==
    \/ UploadFile
    \/ SmallFileCreate
    \/ SmallFileSent
    \/ FileUploadsCreate
    \/ \E k \in 1..Len(parts), status \in {"acknowledged", "rejected"} :
           SendSettles(k, status)
    \/ PromiseAll
    \/ FileUploadsComplete

SpecUploadFile == InitUploadFile /\ [][NextUploadFile]_vars

\* C16: uploadLargeFile requests the completion only when the send of
\* every part has been acknowledged, in whatever order the sends were
\* answered; once a send is rejected the completion is never requested and
\* the upload fails.  The parts are the chunks of at most 10 MiB of the file.
C16_CompleteAfterAllParts ==
    /\ (uploadPc = "complete" \/ completes > 0) =>
           /\ parts # <<>>
           /\ \A k \in DOMAIN parts : parts[k].status = "acknowledged"
    /\ completes <= 1
    /\ (\E k \in DOMAIN parts : parts[k].status = "rejected") =>
           /\ completes = 0
           /\ uploadPc # "complete"
           /\ uploadPc = "done" => uploadResult = "rejected"
    /\ uploadResult = "returned" => completes = 1
    /\ uploadPc # "create" /\ uploadResult = "none" =>
           Len(parts) * 10 >= fileSize /\ (Len(parts) - 1) * 10 < fileSize

\* the completion was requested after the sends were acknowledged
C16_Witness ==
    /\ uploadResult = "returned"
    /\ completes = 1
    /\ Len(parts) >= 3
    /\ parts[Len(parts)].size < TEN_MB

RECURSIVE TotalSize(_)
\* the bytes of the parts, one after the other
TotalSize(ps) == IF ps = <<>> THEN 0 ELSE Head(ps).size + TotalSize(Tail(ps))

\* C25: uploadFile chooses the mode from the size of the file alone.  Up to
\* 20 MiB there is one single_part create, then one send of the whole file,
\* and no completion.  Above 20 MiB there is one multi_part create that
\* declares N = ceil(size / 10 MiB) parts, then N sends with the part
\* numbers 1..N, each once, every chunk of at most 10 MiB and the chunks in
\* the order of their numbers making up the file.  A call that returns has
\* made its create and all its sends.
C25_UploadModeAndPartition ==
    LET N == Ceil(fileSize, TEN_MB)
    IN  /\ Len(created) <= 1
        /\ parts # <<>> => Len(created) = 1
        /\ uploadResult = "returned" => parts # <<>>
        /\ fileSize <= TWENTY_MB =>
               /\ \A k \in DOMAIN created :
                      created[k] = [mode |-> "single_part",
                                    number_of_parts |-> <<>>]
               /\ completes = 0
               /\ parts # <<>> =>
                      parts = <<[size |-> fileSize, part_number |-> <<>>,
                                 status |-> parts[1].status]>>
        /\ fileSize > TWENTY_MB =>
               /\ \A k \in DOMAIN created :
                      created[k] = [mode |-> "multi_part",
                                    number_of_parts |-> <<N>>]
               /\ parts # <<>> =>
                      /\ Len(parts) = N
                      /\ \A k \in DOMAIN parts :
                             /\ parts[k].part_number = <<k>>
                             /\ parts[k].size \in 1..TEN_MB
                      /\ TotalSize(parts) = fileSize

\* a file just above 20 MiB was sent in three parts, the last of them
\* shorter than the others
C25_Witness ==
    /\ uploadResult = "returned"
    /\ fileSize = TWENTY_MB + 1
    /\ created = <<[mode |-> "multi_part", number_of_parts |-> <<3>>]>>
    /\ Len(parts) = 3
    /\ parts[3].size < TEN_MB
    /\ completes = 1

(***************************************************************************)
(* parseMarkdownBlocks on its own: the content is made of at most MaxLines *)
(* lines, one turn of the while loop is one step.                          *)
(***************************************************************************)
SampleLines ==
    { <<>>,
      <<"a">>,
      <<Backquote, Backquote, Backquote>>,
      <<"$", "$">>,
      <<"#", " ", "a">>,
      <<"-", "-", "-">>,
      <<">", " ", "a">>,
      <<">", "[", "!", "x", "]">>,
      <<"!", "[", "]", "(", "a", ")">>,
      <<"!", "[", "]", "(", "%", ")">>,
      <<"!", "[", "[", "%", "4", "1", "]", "]">>,
      <<"!", "[", "]", "(", "h", "t", "t", "p", ":", "/", "/", "x", ")">>,
      <<"-", " ", "[", " ", "]", " ", "a">>,
      <<" ", " ", "-", " ", "a">>,
      <<"1", ".", " ", "a">>,
      <<"a", "|", "b">>,
      <<"-", "|", "-">>,
      <<"a", "[", "^", "1", "]">>,
      <<"[", "^", "1", "]", ":", " ", "a">> }

\* the contents of at most n lines
Texts(n) == UNION {[1..k -> SampleLines] : k \in 0..n}

InitBlocks ==
    /\ content \in Texts(MaxLines)
    /\ lines = bodyLines(content)
    /\ cursor = 1
    /\ entered = 0
    /\ blockList = <<>>
    /\ assigned = {}
    /\ outcome = "parsing"
    /\ fs = [d \in Docs |-> 1]
    /\ EngineIdle
    /\ InlineIdle
    /\ UploadIdle

\* one turn of the while loop of parseMarkdownBlocks(content, "doc/a.md")
ParseBlocksTurn ==
    /\ outcome = "parsing"
    /\ cursor <= Len(lines)
    /\ \E turn \in {parseMarkdownBlocksStep(lines, cursor, DocA)} :
           IF turn.raised
           THEN /\ outcome' = "raised"
                /\ entered' = cursor
                /\ UNCHANGED <<cursor, blockList, assigned>>
           ELSE /\ blockList' = blockList \o turn.blocks
                /\ cursor' = turn.nextIndex
                /\ entered' = cursor
                /\ assigned' = assigned \cup turn.lines
                /\ UNCHANGED outcome
    /\ UNCHANGED <<content, lines, engineVars, inlineVars, uploadVars>>

\* the loop is over: the blocks of the footnotes are appended
ParseBlocksReturn ==
    /\ outcome = "parsing"
    /\ cursor > Len(lines)
    /\ outcome' = "returned"
    /\ blockList' = blockList
           \o footnoteBlocks(parseFootnotes(join(content)).footnotes)
    /\ UNCHANGED <<content, lines, cursor, entered, assigned, engineVars,
                   inlineVars, uploadVars>>

NextBlocks ==
    \/ ParseBlocksTurn
    \/ ParseBlocksReturn

SpecBlocks == InitBlocks /\ [][NextBlocks]_vars

FirstClosing ==
    CHOOSE j \in 2..Len(content) :
        /\ closesFence(content[j])
        /\ \A k \in 2..(j - 1) : ~closesFence(content[k])

\* C22: when the first line of a document opens a fence of code and a later
\* line closes it, the first block is a code block whose text is the lines
\* of the document between the two, joined by "\n", character for
\* character: no inline and no footnote processing is applied to them.
C22_CodeFenceVerbatim ==
    (/\ outcome = "returned"
     /\ Len(content) >= 2
     /\ isCodeFence(content[1]).found
     /\ \E j \in 2..Len(content) : closesFence(content[j])) =>
        /\ blockList # <<>>
        /\ blockList[1].type = "code"
        /\ blockList[1].text = join(SubSeq(content, 2, FirstClosing - 1))

\* the depth of the item of line k
Depth(k) == ListItem(lines[k]).indent \div 2

\* the most recent item before line k that is less deep than it, 0 if none
OpenParent(k) ==
    LET above == {j \in 1..(k - 1) : Depth(j) < Depth(k)}
    IN  IF above = {} THEN 0 ELSE CHOOSE j \in above : \A m \in above : m <= j

\* C23: when every line of a document is an item of a list (task, bulleted
\* or numbered), the blocks hold one block for each line, in the order of
\* the lines, and the block of a line is a child of the most recent item
\* before it whose depth (indent div 2, in the lines the parser loops over)
\* is less than its own, or is at the top when there is none: no item is
\* dropped.
C23_ListNesting ==
    (/\ outcome = "returned"
     /\ content # <<>>
     /\ \A k \in DOMAIN content : ListItem(content[k]).found) =>
        /\ Len(blockList) = Len(lines)
        /\ \A k \in DOMAIN blockList :
               /\ blockList[k].line = k
               /\ blockList[k].parent = OpenParent(k)

(***************************************************************************)
(* The two loops of the parser, each on its own: parseMarkdownBlocks on a  *)
(* content, or parseInline on a text.                                      *)
(***************************************************************************)
InitParsing == InitBlocks \/ InitInline

NextParsing ==
    \/ ParseBlocksTurn
    \/ ParseBlocksReturn
    \/ ParseInlineTurn

SpecParsing == InitParsing /\ [][NextParsing]_vars

\* C30: every turn of the main loop of parseMarkdownBlocks that does not
\* raise leaves the line index greater than it was at the head of the
\* turn, also for a fence or a block of math that is never closed and for
\* a line no recogniser takes, and the loop returns past the last line;
\* wherever the loop of parseInline stands, the turn it takes leaves a
\* shorter remaining text.  The lines left and the length of the remaining
\* text are natural numbers, so both loops come to their end.
C30_ParsingTerminates ==
    /\ outcome = "parsing" => cursor > entered
    /\ Len(remaining) > 0 =>
           Len(parseInlineStep(remaining).rest) < Len(remaining)
    /\ outcome = "returned" => cursor > Len(lines)

\* a fence of code that is never closed: the loop has returned, past the
\* last line
C30_Witness ==
    /\ outcome = "returned"
    /\ Len(content) = MaxLines
    /\ isCodeFence(content[1]).found
    /\ \A k \in 2..Len(content) : ~closesFence(content[k])
    /\ cursor > Len(lines)
    /\ Len(blockList) >= 1
    /\ blockList[1].type = "code"

====
